---- MODULE Spec2Model ----
(***************************************************************************)
(* Deterministic Falcon-1024 for JavaScript: the Falcon class of index.js, *)
(* the C wrappers it calls through WebAssembly (falcon_det1024_*_wrapper   *)
(* in its two revisions, and the legacy simple_* wrapper), and the lattice *)
(* library behind them, which is held as an ideal signature scheme.        *)
(*                                                                         *)
(* Byte arrays keep their real lengths (a secret key is 2305 bytes, a      *)
(* constant-time signature 1538).  They are held run-length encoded: a     *)
(* byte array is a sequence of runs <<b, n>>, n > 0 consecutive bytes of   *)
(* value b, adjacent runs holding different values.  The value UNINIT      *)
(* marks a byte of heap memory that was allocated and never written.       *)
(***************************************************************************)
EXTENDS Integers, Sequences, FiniteSets, TLC

(* ------------------------------ bounds -------------------------------- *)
MaxKeys == 2
MaxSeed == 2
MaxClock == 2

(* -------------------------- program constants ------------------------- *)
FALCON_DET1024_LOGN == 10
FALCON_DET1024_CURRENT_SALT_VERSION == 0
FALCON_DET1024_SIG_COMPRESSED_HEADER == 186
FALCON_DET1024_SIG_CT_HEADER == 218
SK_SIZE == 2305
PK_SIZE == 1793
SIG_CT_SIZE == 1538
FALCON_SIG_COMPRESSED_MAXSIZE == 1462
SIG_COMPRESSED_MAX_SIZE == FALCON_SIG_COMPRESSED_MAXSIZE - 40 + 1
FALCON_SIG_CT_SIZE == SIG_CT_SIZE + 40 - 1
SALT_LEN == 40

FALCON_ERR_SIZE == -2
FALCON_ERR_FORMAT == -3
FALCON_ERR_BADSIG == -4

ERR_INVALID_ARGUMENT == -1
ERR_BUFFER_TOO_SMALL == -2
ERR_MALLOC == -100
UNINIT == -1

(* --------------------------- byte arrays ------------------------------ *)
\* the sum of the integers s[lo..hi], by halving
RECURSIVE SumRange(_, _, _)
SumRange(s, lo, hi) ==
  IF lo > hi THEN 0
  ELSE IF lo = hi THEN s[lo]
  ELSE LET mid == (lo + hi) \div 2
       IN  SumRange(s, lo, mid) + SumRange(s, mid + 1, hi)

RECURSIVE NormRange(_, _, _)
NormRange(rs, lo, hi) ==
  LET \* two canonical arrays, one after the other
      Join(a, b) ==
        IF a = <<>> THEN b
        ELSE IF b = <<>> THEN a
        ELSE IF a[Len(a)][1] = b[1][1]
        THEN SubSeq(a, 1, Len(a) - 1)
             \o << <<b[1][1], a[Len(a)][2] + b[1][2]>> >> \o Tail(b)
        ELSE a \o b
  IN  IF lo > hi THEN <<>>
      ELSE IF lo = hi THEN <<rs[lo]>>
      ELSE LET mid == (lo + hi) \div 2
           IN  Join(NormRange(rs, lo, mid), NormRange(rs, mid + 1, hi))

\* the canonical form of a sequence of runs
Norm(rs) ==
  LET nz == SelectSeq(rs, LAMBDA r : r[2] > 0)
  IN  NormRange(nz, 1, Len(nz))

Rep(b, n) == IF n <= 0 THEN <<>> ELSE << <<b, n>> >>

Bytes(s) == Norm([i \in 1..Len(s) |-> <<s[i], 1>>])

Cat(a, b) == Norm(a \o b)

BLen(a) == SumRange([j \in DOMAIN a |-> a[j][2]], 1, Len(a))

\* a[i], i counted from 0 as in C and JavaScript
RECURSIVE At(_, _)
At(a, i) ==
  IF a = <<>> \/ i < 0 THEN UNINIT
  ELSE IF i < a[1][2] THEN a[1][1] ELSE At(Tail(a), i - a[1][2])

\* the number of leading runs that lie wholly within the first k bytes
RECURSIVE Whole(_, _)
Whole(a, k) ==
  IF a = <<>> \/ k < a[1][2] THEN 0 ELSE 1 + Whole(Tail(a), k - a[1][2])

\* the number of bytes in the first j runs
Used(a, j) == SumRange([i \in 1..j |-> a[i][2]], 1, j)

\* the first k bytes, j runs of which are whole and hold `used` bytes
TakeRuns(a, k, j, used) ==
  IF j = Len(a) \/ used = k THEN SubSeq(a, 1, j)
  ELSE SubSeq(a, 1, j) \o << <<a[j + 1][1], k - used>> >>

Take(a, k) ==
  IF k <= 0 THEN <<>> ELSE TakeRuns(a, k, Whole(a, k), Used(a, Whole(a, k)))

\* all but the first k bytes
DropRuns(a, k, j, used) ==
  IF j = Len(a) THEN <<>>
  ELSE IF used = k THEN SubSeq(a, j + 1, Len(a))
  ELSE << <<a[j + 1][1], a[j + 1][2] - (k - used)>> >>
       \o SubSeq(a, j + 2, Len(a))

Drop(a, k) ==
  IF k <= 0 THEN a ELSE DropRuns(a, k, Whole(a, k), Used(a, Whole(a, k)))

\* the len bytes of a from offset off on
Slice(a, off, len) == Take(Drop(a, off), len)

\* memcpy(dst + off, src, BLen(src)) into a buffer that is large enough
Poke(dst, off, src) ==
  Norm(Take(dst, off) \o src \o Drop(dst, off + BLen(src)))

\* the bytes of a short array, as a plain sequence
RECURSIVE Plain(_)
Plain(a) ==
  IF a = <<>> THEN <<>>
  ELSE <<a[1][1]>> \o Plain(Rep(a[1][1], a[1][2] - 1) \o Tail(a))

\* b | 0x80 and b & ~0x80 on one byte
Or80(b) == IF b >= 128 THEN b ELSE b + 128
\* the mask forgotten: the header byte copied as it is
AndNot80_unmasked(b) == b
AndNot80(b) == IF b >= 128 THEN b - 128 ELSE b

\* one bit of one byte flipped: a[pos] ^= (1 << bit)
FlipBit(a, pos, bit) ==
  Poke(a, pos, Rep(IF (At(a, pos) \div (2 ^ bit)) % 2 = 1
                   THEN At(a, pos) - 2 ^ bit ELSE At(a, pos) + 2 ^ bit, 1))

(* ---------------------- SHAKE256 (falcon/shake.c) --------------------- *)
\* A context is the byte string absorbed so far and the mode it is in.
shake256_init == [data |-> <<>>, out |-> FALSE]
shake256_inject(sc, bytes) == [sc EXCEPT !.data = Cat(@, bytes)]
shake256_flip(sc) == [sc EXCEPT !.out = TRUE]
shake256_init_prng_from_seed(seed) ==
  shake256_flip(shake256_inject(shake256_init, seed))

\* sum of a[i] and of (i + 1) * a[i], i from 0: what the sponge output
\* is taken to depend on
ByteSum(a) == SumRange([j \in DOMAIN a |-> a[j][1] * a[j][2]], 1, Len(a))

\* the bytes weighted by their positions, which count from p + 1
WeightedSum(a, p) ==
  LET \* Pre(a)[j]: the number of bytes in the first j runs
      Pre(a0) ==
        LET counts == [j \in DOMAIN a |-> a0[j][2]]
        IN  [j \in 0..Len(a0) |-> SumRange(counts, 1, j)]
  IN  LET pre == Pre(a)
      IN  SumRange([j \in DOMAIN a |->
                     a[j][1] * (a[j][2] * (p + pre[j - 1])
                                + (a[j][2] * (a[j][2] + 1)) \div 2)],
                   1, Len(a))

(* --------------- the lattice engine (falcon/*.c), idealised ----------- *)
N == 2 ^ FALCON_DET1024_LOGN

\* falcon_det1024_keygen / falcon_keygen_make: the key pair is a function of
\* the PRNG state alone.  sk = 0x5A || f,g,F ; pk = 0x0A || h.
PrngOutput(rng) ==
  Bytes(<< ByteSum(rng.data) % 256, WeightedSum(rng.data, 0) % 256,
           BLen(rng.data) % 256 >>)

KeygenSk(rng) ==
  Cat(Rep(80 + FALCON_DET1024_LOGN, 1),
      Take(Cat(PrngOutput(rng), Rep(0, SK_SIZE)), SK_SIZE - 1))
PkOfSk(sk) ==
  LET \* The public polynomial of a secret key body: a one-way map, byte by byte.
      PublicOf(body) == Norm([i \in DOMAIN body |-> <<(body[i][1] * 7 + 3) % 256, body[i][2]>>])
  IN  Cat(Rep(FALCON_DET1024_LOGN, 1), Take(PublicOf(Drop(sk, 1)), PK_SIZE - 1))

\* The point a message hashes to: a digest of everything the hash sponge
\* absorbed (nonce || message), whatever the mode the caller left it in.
HashToPoint(hd) ==
  << WeightedSum(hd.data, 0) % 2039, ByteSum(hd.data) % 2039,
     BLen(hd.data) % 2039 >>

\* The signature vector: N integer coefficients in -2047..2047, run-length
\* encoded like a byte array.  It binds the public key (h0, h1), the hashed
\* point c and the bit r drawn from the signing PRNG.
SigVector(h0, h1, c, r) ==
  Norm(<< <<h0 + r - 128, 1>>, <<h1 - 128, 1>>, <<c[1] - 1019, 1>>,
          <<c[2] - 1019, 1>>, <<c[3] - 1019, 1>>, <<r, 1>>,
          <<0, N - 6>> >>)

\* what the sampler draws from the signing PRNG is one bit of its output
Sample(rng, sk, hd) ==
  SigVector(At(PkOfSk(sk), 1), At(PkOfSk(sk), 2), HashToPoint(hd),
            IF rng.out THEN (WeightedSum(rng.data, 0) + BLen(rng.data)) % 2
            ELSE 2 + (ByteSum(rng.data) % 2))

(* ----------------------- the codec (falcon/codec.c) ------------------- *)
Abs(v) == IF v < 0 THEN -v ELSE v
InRange(vec) == \A i \in DOMAIN vec : Abs(vec[i][1]) <= 2047

\* Compressed format, one coefficient after the other: a byte holding the
\* sign (0x80), a continuation flag (0x40) and the low 6 bits of |v|, then,
\* when the flag is set, a byte holding |v| >> 6.  Small coefficients take
\* one byte, large ones two: the length depends on the vector.
CompBytes(v) ==
  LET s == IF v < 0 THEN 128 ELSE 0
      m == Abs(v)
  IN  IF m < 64 THEN << <<s + m, 1>> >>
      ELSE << <<s + 64 + (m % 64), 1>>, <<m \div 64, 1>> >>

RECURSIVE CompRuns(_)
CompRuns(vec) ==
  IF vec = <<>> THEN <<>>
  ELSE LET v == vec[1][1]
           n == vec[1][2]
       IN  IF Abs(v) < 64
           THEN << <<CompBytes(v)[1][1], n>> >> \o CompRuns(Tail(vec))
           ELSE CompBytes(v) \o CompRuns(Rep(v, n - 1) \o Tail(vec))

\* comp_encode: the encoding, or the empty string when a coefficient is out
\* of range (the C function returns the length 0)
comp_encode(vec) == IF InRange(vec) THEN Norm(CompRuns(vec)) ELSE <<>>

DecodeFailed == [ok |-> FALSE, v |-> <<>>]

\* comp_decode: exactly `need` coefficients from exactly the bytes of a
RECURSIVE CompDecodeRuns(_, _)
CompDecodeRuns(a, need) ==
  IF a = <<>> THEN [ok |-> need = 0, v |-> <<>>]
  ELSE LET b == a[1][1]
           n == a[1][2]
           low == b % 64
           neg == b >= 128
           more == (b % 128) >= 64
       IN  IF b < 0 \/ b > 255 \/ need = 0 THEN DecodeFailed
           ELSE IF ~more
           THEN IF b = 128 \/ n > need THEN DecodeFailed
                ELSE LET rest == CompDecodeRuns(Tail(a), need - n)
                     IN  [ok |-> rest.ok,
                          v |-> << <<IF neg THEN -low ELSE low, n>> >> \o rest.v]
           ELSE IF BLen(Take(a, 2)) < 2 THEN DecodeFailed
           ELSE LET hb == At(a, 1)
                IN  IF hb < 1 \/ hb > 31 THEN DecodeFailed
                    ELSE LET rest == CompDecodeRuns(Drop(a, 2), need - 1)
                             m == hb * 64 + low
                         IN  [ok |-> rest.ok,
                              v |-> << <<IF neg THEN -m ELSE m, 1>> >> \o rest.v]

\* the decoded coefficients as a vector
Decoded(d) == IF d.ok THEN [ok |-> TRUE, v |-> Norm(d.v)] ELSE DecodeFailed

comp_decode(a) == Decoded(CompDecodeRuns(a, N))

\* Constant-time format: every coefficient in a 12-bit two's-complement
\* slot, most significant bit first; two coefficients fill three bytes.
Slot(v) == IF v < 0 THEN v + 4096 ELSE v

RECURSIVE CtRuns(_)
CtRuns(vec) ==
  LET PairBytes(v0, w) ==
        << <<Slot(v0) \div 16, 1>>,
           <<(Slot(v0) % 16) * 16 + (Slot(w) \div 256), 1>>,
           <<Slot(w) % 256, 1>> >>
  IN  IF vec = <<>> THEN <<>>
      ELSE LET v == vec[1][1]
               n == vec[1][2]
           IN  IF v = 0 /\ n >= 2
               THEN << <<0, 3 * (n \div 2)>> >> \o CtRuns(Drop(vec, 2 * (n \div 2)))
               ELSE PairBytes(v, At(vec, 1)) \o CtRuns(Drop(vec, 2))

\* trim_i16_encode at 12 bits: (12 * N) / 8 bytes, or the empty string when
\* a coefficient does not fit its slot
trim_i16_encode(vec) == IF InRange(vec) THEN Norm(CtRuns(vec)) ELSE <<>>

Unslot(u) == IF u >= 2048 THEN u - 4096 ELSE u

RECURSIVE CtDecodeRuns(_)
CtDecodeRuns(a) ==
  IF a = <<>> THEN [ok |-> TRUE, v |-> <<>>]
  ELSE IF a[1][1] = 0 /\ a[1][2] >= 3
  THEN LET k == a[1][2] \div 3
           rest == CtDecodeRuns(Drop(a, 3 * k))
       IN  [ok |-> rest.ok, v |-> << <<0, 2 * k>> >> \o rest.v]
  ELSE IF BLen(Take(a, 3)) < 3 THEN DecodeFailed
  ELSE LET b0 == At(a, 0)
           b1 == At(a, 1)
           b2 == At(a, 2)
           u == b0 * 16 + (b1 \div 16)
           w == (b1 % 16) * 256 + b2
       IN  IF \E b \in {b0, b1, b2} : b < 0 \/ b > 255 THEN DecodeFailed
           ELSE IF u = 2048 \/ w = 2048 THEN DecodeFailed
           ELSE LET rest == CtDecodeRuns(Drop(a, 3))
                IN  [ok |-> rest.ok,
                     v |-> << <<Unslot(u), 1>>, <<Unslot(w), 1>> >> \o rest.v]

\* trim_i16_decode: N coefficients from exactly (12 * N) / 8 bytes
trim_i16_decode(a) ==
  IF BLen(a) # (12 * N) \div 8 THEN DecodeFailed ELSE Decoded(CtDecodeRuns(a))

(* ------------------ the engine's entry points (falcon/falcon.c) ------- *)
KeyFormatOk(key, nibble) ==
  /\ BLen(key) > 0
  /\ At(key, 0) \div 16 = nibble
  /\ At(key, 0) % 16 = FALCON_DET1024_LOGN

\* falcon_sign_dyn_finish, compressed format: header 0x3A, the 40-byte nonce,
\* then the compressed vector; fails when it does not fit within sig_max
EmitCompressed(sig_max, nonce, enc) ==
  IF enc = <<>> \/ BLen(enc) > sig_max - (SALT_LEN + 1)
  THEN [r |-> FALCON_ERR_SIZE, sig |-> <<>>]
  ELSE [r |-> 0,
        sig |-> Cat(Cat(Rep(48 + FALCON_DET1024_LOGN, 1),
                        Take(nonce, SALT_LEN)), enc)]

falcon_sign_dyn_finish(rng, sig_max, sk, hd, nonce) ==
  IF ~KeyFormatOk(sk, 5) \/ BLen(sk) # SK_SIZE
  THEN [r |-> FALCON_ERR_FORMAT, sig |-> <<>>]
  ELSE IF sig_max < SALT_LEN + 1
  THEN [r |-> FALCON_ERR_SIZE, sig |-> <<>>]
  ELSE EmitCompressed(sig_max, nonce, comp_encode(Sample(rng, sk, hd)))

\* falcon_verify: 0 when the signature is well formed and valid for the
\* key and the message, FALCON_ERR_FORMAT or FALCON_ERR_BADSIG otherwise
\* (verify_raw: the vector is one the holder of the matching secret key can
\* have produced for this hashed point)
\* every vector that decodes taken for the signer's
VerifyDecoded_decodes(pk, c, d) == IF ~d.ok THEN FALCON_ERR_FORMAT ELSE 0
VerifyDecoded(pk, c, d) ==
  IF ~d.ok THEN FALCON_ERR_FORMAT
  ELSE IF \E r \in {0, 1} : d.v = SigVector(At(pk, 1), At(pk, 2), c, r) THEN 0
  ELSE FALCON_ERR_BADSIG

VerifyAs(ct, sig, pk, msg) ==
  IF BLen(sig) < SALT_LEN + 1 THEN FALCON_ERR_FORMAT
  ELSE IF ~KeyFormatOk(pk, 0) THEN FALCON_ERR_FORMAT
  ELSE IF At(sig, 0) % 16 # FALCON_DET1024_LOGN THEN FALCON_ERR_BADSIG
  ELSE IF At(sig, 0) \div 16 # (IF ct THEN 5 ELSE 3) THEN FALCON_ERR_FORMAT
  ELSE IF ct /\ BLen(sig) # FALCON_SIG_CT_SIZE THEN FALCON_ERR_FORMAT
  ELSE IF BLen(pk) # PK_SIZE THEN FALCON_ERR_FORMAT
  ELSE VerifyDecoded(pk,
                     HashToPoint(shake256_inject(
                                   shake256_inject(shake256_init,
                                                   Slice(sig, 1, SALT_LEN)),
                                   msg)),
                     IF ct THEN trim_i16_decode(Drop(sig, SALT_LEN + 1))
                     ELSE comp_decode(Drop(sig, SALT_LEN + 1)))

falcon_verify(sig, sig_type, pk, msg) == VerifyAs(sig_type = "CT", sig, pk, msg)

\* falcon_sign_tree (randomized signing): the nonce is the first output of
\* the caller's PRNG
falcon_sign_tree(rng, sig_max, sk, msg) ==
  falcon_sign_dyn_finish(
    rng, sig_max, sk,
    shake256_inject(shake256_inject(shake256_init,
                                    Rep(At(PrngOutput(rng), 0), SALT_LEN)),
                    msg),
    Rep(At(PrngOutput(rng), 0), SALT_LEN))

(* ------------- deterministic mode (falcon/deterministic.c) ------------ *)

falcon_det1024_convert_compressed_to_ct(sig_compressed, sig_compressed_len) ==
  LET \* falcon_det1024_convert_compressed_to_ct: decode the compressed vector
      \* and re-encode it in fixed-width slots under the CT header
      EmitCT(sig_compressed0, enc) ==
        IF enc = <<>> THEN [r |-> FALCON_ERR_SIZE, sig_ct |-> <<>>]
        ELSE [r |-> 0,
              sig_ct |-> Cat(Cat(Rep(FALCON_DET1024_SIG_CT_HEADER, 1),
                                 Rep(At(sig_compressed0, 1), 1)), enc)]
  IN  LET Reencode(sig_compressed0, d) ==
            IF ~d.ok THEN [r |-> FALCON_ERR_SIZE, sig_ct |-> <<>>]
            ELSE EmitCT(sig_compressed0, trim_i16_encode(d.v))
      IN  IF At(sig_compressed, 0) # FALCON_DET1024_SIG_COMPRESSED_HEADER
          THEN [r |-> FALCON_ERR_BADSIG, sig_ct |-> <<>>]
          ELSE Reencode(sig_compressed,
                        comp_decode(Slice(sig_compressed, 2, sig_compressed_len - 2)))

(* ---------- the deterministic wrapper (falcon_det_wrapper.c) ---------- *)
\* malloc(n): n bytes holding whatever the heap held there before
malloc(heap, n) == Rep(heap, n)

\* "FALCON_DET"
DomainTag == Bytes(<<70, 65, 76, 67, 79, 78, 95, 68, 69, 84>>)

\* the zero padding forgotten: bytes 12..39 keep what malloc returned
WriteSalt_unpadded(buf, version) ==
  Poke(Poke(Poke(buf, 0, Rep(version, 1)), 1, Rep(FALCON_DET1024_LOGN, 1)),
       2, DomainTag)

\* the salt, written field by field into its malloc'ed buffer
WriteSalt(buf, version) ==
  Poke(Poke(Poke(Poke(buf, 0, Rep(version, 1)),
                 1, Rep(FALCON_DET1024_LOGN, 1)),
            2, DomainTag),
       12, Rep(0, 28))

SignerSalt(heap) ==
  WriteSalt(malloc(heap, SALT_LEN), FALCON_DET1024_CURRENT_SALT_VERSION)

\* the key absorbed past its end: the bytes behind it on the heap go in too
DetRng_overread(sk, msg) ==
  shake256_flip(
    shake256_inject(
      shake256_inject(
        shake256_inject(shake256_init, Rep(FALCON_DET1024_LOGN, 1)), sk),
      msg))

\* SHAKE(logn || sk || msg), flipped to output mode
DetRng(sk, msg) ==
  shake256_flip(
    shake256_inject(
      shake256_inject(
        shake256_inject(shake256_init, Rep(FALCON_DET1024_LOGN, 1)),
        Slice(sk, 0, SK_SIZE)),
      msg))

\* the hash sponge flipped before it is handed over
HashData_flipped(salt, msg) ==
  shake256_flip(
    shake256_inject(shake256_inject(shake256_init, Slice(salt, 0, SALT_LEN)), msg))

\* SHAKE(salt || msg), left in input mode
HashData(salt, msg) ==
  shake256_inject(shake256_inject(shake256_init, Slice(salt, 0, SALT_LEN)), msg)

\* the "+ 1" forgotten
RemapLen_short(sigcomp_len) == sigcomp_len - SALT_LEN
RemapLen(sigcomp_len) == sigcomp_len - SALT_LEN + 1

(* What a call leaves behind besides its result: the steps it took, in    *)
(* order, each a pair <<what, on which object>>, and the buffers it        *)
(* released, each with the bytes it held at its free() and whether the     *)
(* call had written to it.                                                 *)
Steps(op, names) == [i \in DOMAIN names |-> <<op, names[i]>>]
Buffer(name, bytes, written) == [buf |-> name, bytes |-> bytes, written |-> written]

\* the scratch buffers of the signing wrapper, in the order of their malloc
Scratch == <<"detrng", "hd", "tmpsd", "salt", "saltedsig">>
\* their sizes: sizeof(shake256_context) is 208 bytes and
\* FALCON_TMPSIZE_SIGNDYN(logn) is 78 * N + 7
ScratchSize(b) ==
  CASE b = "detrng" -> 208
    [] b = "hd" -> 208
    [] b = "tmpsd" -> 78 * N + 7
    [] b = "salt" -> SALT_LEN
    [] b = "saltedsig" -> FALCON_SIG_COMPRESSED_MAXSIZE

\* buffers released as malloc returned them
Untouched(heap, names) ==
  [i \in DOMAIN names |-> Buffer(names[i], malloc(heap, ScratchSize(names[i])), FALSE)]

\* the second revision prints *sig_len before it tests sig_len
EntrySteps(variant) ==
  IF variant = "A" THEN << <<"check", "args">> >>
  ELSE << <<"read", "sig_len">>, <<"check", "args">> >>

SignFailed(code, sig, sig_len, ub, log, freed) ==
  [r |-> code, sig |-> sig, sig_len |-> sig_len, salt |-> <<>>, inner |-> <<>>,
   ub |-> ub, log |-> log, freed |-> freed,
   detrng |-> shake256_init, hd |-> shake256_init]

\* the salt written first
EngineSteps_saltfirst ==
  << <<"write", "salt">>, <<"init", "detrng">>, <<"inject", "detrng">>,
     <<"inject", "detrng">>, <<"inject", "detrng">>, <<"flip", "detrng">>,
     <<"init", "hd">>, <<"inject", "hd">>, <<"inject", "hd">>,
     <<"call", "falcon_sign_dyn_finish">> >>

\* lines 116-130: detrng, then the salt, then hd, then the engine's call
EngineSteps ==
  << <<"init", "detrng">>, <<"inject", "detrng">>, <<"inject", "detrng">>,
     <<"inject", "detrng">>, <<"flip", "detrng">>, <<"write", "salt">>,
     <<"init", "hd">>, <<"inject", "hd">>, <<"inject", "hd">>,
     <<"call", "falcon_sign_dyn_finish">> >>

\* inside falcon_sign_dyn_finish: the key is decoded into tmp, the vector
\* sampled and then encoded into the caller's buffer
SampledSteps(e) ==
  IF e.r = FALCON_ERR_FORMAT THEN <<>>
  ELSE << <<"sample", "tmpsd">>, <<"encode", "saltedsig">> >>

\* the five scratch buffers as they are at their free() after the engine's call
Worked(heap, sk, salt, detrng, hd, e) ==
  << Buffer("detrng", detrng.data, TRUE),
     Buffer("hd", hd.data, TRUE),
     Buffer("tmpsd",
            IF e.r = FALCON_ERR_FORMAT THEN malloc(heap, ScratchSize("tmpsd"))
            ELSE Poke(malloc(heap, ScratchSize("tmpsd")), 0, Slice(sk, 1, SK_SIZE - 1)),
            e.r # FALCON_ERR_FORMAT),
     Buffer("salt", salt, TRUE),
     Buffer("saltedsig",
            IF e.r # 0 THEN malloc(heap, FALCON_SIG_COMPRESSED_MAXSIZE)
            ELSE Poke(malloc(heap, FALCON_SIG_COMPRESSED_MAXSIZE), 0, e.sig),
            e.r = 0) >>

\* the header bytes written before the engine's code is looked at
SignRemapped_partial(log, heap, sk, sig, sig_len, salt, detrng, hd, e) ==
  [r |-> e.r,
   sig |-> Poke(Poke(sig, 0, Rep(Or80(48 + FALCON_DET1024_LOGN), 1)),
                1, Rep(FALCON_DET1024_CURRENT_SALT_VERSION, 1)),
   sig_len |-> sig_len, salt |-> salt, inner |-> e.sig, ub |-> FALSE,
   log |-> log \o SampledSteps(e)
             \o << <<"write", "sig">>, <<"write", "sig_len">> >>
             \o Steps("free", Scratch),
   freed |-> Worked(heap, sk, salt, detrng, hd, e), detrng |-> detrng, hd |-> hd]

\* after the engine's call: its error passed on, or the header remap:
\* sig[0] = saltedsig[0] | 0x80, sig[1] = salt version, then the salted
\* signature from offset 41 on
SignRemapped(log, heap, sk, sig, sig_len, salt, detrng, hd, e) ==
  IF e.r # 0
  THEN [SignFailed(e.r, sig, sig_len, FALSE,
                   log \o SampledSteps(e) \o Steps("free", Scratch),
                   Worked(heap, sk, salt, detrng, hd, e))
          EXCEPT !.detrng = detrng, !.hd = hd]
  ELSE [r |-> 0,
        sig |-> Poke(Poke(Poke(sig, 0, Rep(Or80(At(e.sig, 0)), 1)),
                          1, Rep(FALCON_DET1024_CURRENT_SALT_VERSION, 1)),
                     2, Drop(e.sig, SALT_LEN + 1)),
        sig_len |-> RemapLen(BLen(e.sig)),
        salt |-> salt, inner |-> e.sig,
        ub |-> FALSE,
        log |-> log \o SampledSteps(e)
                  \o << <<"write", "sig">>, <<"write", "sig_len">> >>
                  \o Steps("free", Scratch),
        freed |-> Worked(heap, sk, salt, detrng, hd, e),
        detrng |-> detrng, hd |-> hd]

\* the two sponges, the salt, and the engine's call on them; the room the
\* engine is told it has for the salted signature is SIG_COMPRESSED_MAX_SIZE
\* in the first revision and the size of saltedsig in the second
SignSalted(variant, log, heap, sig, sig_len, sk, msg, salt) ==
  SignRemapped(log \o EngineSteps, heap, sk, sig, sig_len, salt,
               DetRng(sk, msg), HashData(salt, msg),
               falcon_sign_dyn_finish(DetRng(sk, msg),
                                      IF variant = "A"
                                      THEN SIG_COMPRESSED_MAX_SIZE
                                      ELSE FALCON_SIG_COMPRESSED_MAXSIZE,
                                      Slice(sk, 0, SK_SIZE),
                                      HashData(salt, msg), salt))

\* the key's logn not looked at
SignAllocated_unchecked(variant, log, heap, fault, sig, sig_len, sk, msg) ==
  SignSalted(variant,
             log \o Steps("malloc", Scratch) \o << <<"check", "logn">> >>,
             heap, sig, sig_len, sk, msg, SignerSalt(heap))

\* After the argument and room checks: the five allocations, the key's
\* logn.  When a malloc returns NULL the first revision has made all five
\* calls, tests the five pointers together and frees all five; the second
\* tests each pointer after its malloc and frees the ones before it.
SignAllocated(variant, log, heap, fault, sig, sig_len, sk, msg) ==
  LET \* falcon_get_logn: the low nibble of the header byte of a key or signature
      falcon_get_logn(obj) ==
        IF BLen(obj) = 0 THEN FALCON_ERR_FORMAT
        ELSE LET logn == At(obj, 0) % 16
             IN  IF logn < 1 \/ logn > 10 THEN FALCON_ERR_FORMAT ELSE logn
  IN  IF fault # 0
      THEN SignFailed(ERR_MALLOC, sig, sig_len, FALSE,
                      log \o (IF variant = "A"
                              THEN Steps("malloc", Scratch)
                                     \o << <<"check", "malloc">> >>
                                     \o Steps("free", Scratch)
                              ELSE Steps("malloc", SubSeq(Scratch, 1, fault))
                                     \o << <<"check", "malloc">> >>
                                     \o Steps("free", SubSeq(Scratch, 1, fault - 1))),
                      Untouched(heap, IF variant = "A"
                                      THEN SubSeq(Scratch, 1, fault - 1)
                                             \o SubSeq(Scratch, fault + 1, Len(Scratch))
                                      ELSE SubSeq(Scratch, 1, fault - 1)))
      ELSE IF falcon_get_logn(sk) # FALCON_DET1024_LOGN
      THEN SignFailed(FALCON_ERR_FORMAT, sig, sig_len, FALSE,
                      log \o Steps("malloc", Scratch) \o << <<"check", "logn">> >>
                          \o Steps("free", Scratch),
                      Untouched(heap, Scratch))
      ELSE SignSalted(variant,
                      log \o Steps("malloc", Scratch) \o << <<"check", "logn">> >>,
                      heap, sig, sig_len, sk, msg, SignerSalt(heap))

\* nulls: the arguments that are null pointers.  fault: which of the five
\* mallocs returns NULL, 0 for none.  sig_len: the word sig_len points to.
falcon_det1024_sign_compressed_wrapper(variant, heap, fault, nulls, sig, sig_len, sk, msg, msg_len) ==
  IF nulls \cap {"sig", "sig_len", "sk"} # {} \/ ("msg" \in nulls /\ msg_len > 0)
  THEN SignFailed(ERR_INVALID_ARGUMENT, sig, sig_len,
                  variant = "B" /\ "sig_len" \in nulls,
                  EntrySteps(variant), <<>>)
  ELSE IF sig_len < SIG_COMPRESSED_MAX_SIZE
  THEN SignFailed(ERR_BUFFER_TOO_SMALL, sig, sig_len, FALSE,
                  EntrySteps(variant)
                    \o << <<"read", "sig_len">>, <<"check", "room">> >>, <<>>)
  ELSE SignAllocated(variant,
                     EntrySteps(variant)
                       \o << <<"read", "sig_len">>, <<"check", "room">> >>,
                     heap, fault, sig, sig_len, sk, Slice(msg, 0, msg_len))

falcon_det1024_convert_compressed_to_ct_wrapper(sig_ct, sig_compressed, sig_compressed_len) ==
  LET ConvertWritten(sig_ct0, c) ==
        [r |-> c.r, sig_ct |-> IF c.r = 0 THEN Poke(sig_ct0, 0, c.sig_ct) ELSE sig_ct0]
  IN  ConvertWritten(sig_ct,
        falcon_det1024_convert_compressed_to_ct(sig_compressed, sig_compressed_len))

VerifierSalt(heap, sig) == WriteSalt(malloc(heap, SALT_LEN), At(sig, 1))

\* salted_sig of the compressed verifier: header with the top bit cleared,
\* the salt, then sig_len - 2 bytes of the wire signature
RebuildCompressed(heap, sig, sig_len) ==
  Take(Poke(Poke(Poke(malloc(heap, FALCON_SIG_COMPRESSED_MAXSIZE),
                      0, Rep(AndNot80(At(sig, 0)), 1)),
                 1, VerifierSalt(heap, sig)),
            SALT_LEN + 1, Slice(sig, 2, sig_len - 2)),
       sig_len + SALT_LEN - 1)

\* the memcpy into salted_sig writes past the end of the allocation
Overflows(sig_len) == SALT_LEN + 1 + (sig_len - 2) > FALCON_SIG_COMPRESSED_MAXSIZE

\* either verifying wrapper returning at its header check
VerifyRejected ==
  [r |-> FALCON_ERR_BADSIG, ub |-> FALSE, salt |-> <<>>, inner |-> <<>>,
   log |-> << <<"check", "args">>, <<"check", "header">> >>]

\* the engine's verdict on the rebuilt salted signature
VerifySalted(salted_sig, sig_type, ub, salt, pk, msg) ==
  [r |-> falcon_verify(salted_sig, sig_type, Slice(pk, 0, PK_SIZE), msg),
   ub |-> ub, salt |-> salt, inner |-> salted_sig,
   log |-> << <<"check", "args">>, <<"check", "header">>,
              <<"malloc", "tmpvv">>, <<"malloc", "salted_sig">>,
              <<"write", "salted_sig">>, <<"malloc", "salt">>,
              <<"write", "salt">>, <<"write", "salted_sig">>,
              <<"write", "salted_sig">>, <<"call", "falcon_verify">>,
              <<"free", "tmpvv">>, <<"free", "salted_sig">>,
              <<"free", "salt">> >>]

\* the tag bit tested instead of the whole header byte
falcon_det1024_verify_compressed_wrapper_tagbit(heap, sig, sig_len, pk, msg) ==
  IF sig_len < 2 \/ At(sig, 0) < 128
  THEN VerifyRejected
  ELSE VerifySalted(RebuildCompressed(heap, sig, sig_len), "COMPRESSED",
                    Overflows(sig_len), VerifierSalt(heap, sig), pk, msg)

falcon_det1024_verify_compressed_wrapper(heap, sig, sig_len, pk, msg) ==
  IF sig_len < 2 \/ At(sig, 0) # FALCON_DET1024_SIG_COMPRESSED_HEADER
  THEN VerifyRejected
  ELSE VerifySalted(RebuildCompressed(heap, sig, sig_len), "COMPRESSED",
                    Overflows(sig_len), VerifierSalt(heap, sig), pk, msg)

\* the copy taken from sig + 1 instead of sig + 2
RebuildCT_shifted(heap, sig) ==
  Poke(Poke(Poke(malloc(heap, FALCON_SIG_CT_SIZE),
                 0, Rep(AndNot80(At(sig, 0)), 1)),
            1, VerifierSalt(heap, sig)),
       SALT_LEN + 1, Slice(Cat(sig, malloc(heap, SIG_CT_SIZE)), 1, SIG_CT_SIZE - 2))

\* salted_sig of the constant-time verifier: always SIG_CT_SIZE - 2 bytes
\* are copied from sig + 2
RebuildCT(heap, sig) ==
  Poke(Poke(Poke(malloc(heap, FALCON_SIG_CT_SIZE),
                 0, Rep(AndNot80(At(sig, 0)), 1)),
            1, VerifierSalt(heap, sig)),
       SALT_LEN + 1, Slice(Cat(sig, malloc(heap, SIG_CT_SIZE)), 2, SIG_CT_SIZE - 2))

falcon_det1024_verify_ct_wrapper(heap, sig, pk, msg) ==
  IF At(sig, 0) # FALCON_DET1024_SIG_CT_HEADER
  THEN VerifyRejected
  ELSE VerifySalted(RebuildCT(heap, sig), "CT", FALSE,
                    VerifierSalt(heap, sig), pk, msg)

\* the header byte returned instead of the version byte
falcon_det1024_get_salt_version_wrapper_header(sig) == At(sig, 0)
falcon_det1024_get_salt_version_wrapper(sig) ==
  LET \* falcon_det1024_get_salt_version
      falcon_det1024_get_salt_version(sig0) == At(sig0, 1)
  IN  falcon_det1024_get_salt_version(sig)

\* the key pair made from a 48-byte seed
KeygenFrom(seed) ==
  [r |-> 0, sk |-> KeygenSk(shake256_init_prng_from_seed(seed)),
   pk |-> PkOfSk(KeygenSk(shake256_init_prng_from_seed(seed)))]

\* the three key generators: a seed drawn from libsodium, a seed derived
\* from the clock, a fixed seed
falcon_det1024_keygen_wrapper(variant, draw, t) ==
  KeygenFrom(IF variant = "A" THEN Rep(200 + draw, 48)
             ELSE Norm([i \in 1..48 |->
                         <<IF i % 3 = 1 THEN t % 256
                           ELSE IF i % 3 = 2 THEN (t \div 256) % 256
                           ELSE (t \div 65536) % 256, 1>>]))

simple_keygen == KeygenFrom(Bytes([i \in 1..48 |-> i]))

(* --------------- the first wrapper (falcon_wrapper.c) ----------------- *)
\* the three buffers of simple_sign, in the order of their free
SimpleFrees == <<"exp_sk", "tmp_expand", "tmp_sign">>

\* simple_sign prints *sig_len before it tests sig_len, then allocates its
\* three buffers and expands the key
SimpleExpandSteps ==
  << <<"read", "sig_len">>, <<"check", "args">> >>
    \o Steps("malloc", <<"tmp_expand", "tmp_sign", "exp_sk">>)
    \o << <<"call", "falcon_expand_privkey">> >>

SimpleReturn(code, sig, sig_len, ub, log) ==
  [r |-> code, sig |-> sig, sig_len |-> sig_len, salt |-> <<>>, inner |-> <<>>,
   ub |-> ub, log |-> log,
   freed |-> <<>>, detrng |-> shake256_init, hd |-> shake256_init]

simple_sign(nulls, sig, sig_len, sk, msg, msg_len) ==
  LET SimpleSigned(sig0, sig_len0, e) ==
        IF e.r # 0
        THEN SimpleReturn(e.r, sig0, sig_len0, FALSE,
                          SimpleExpandSteps \o << <<"call", "falcon_sign_tree">> >>
                            \o Steps("free", SimpleFrees))
        ELSE SimpleReturn(0, Poke(sig0, 0, e.sig), BLen(e.sig), FALSE,
                          SimpleExpandSteps
                            \o << <<"call", "falcon_sign_tree">>, <<"write", "sig">>,
                                  <<"write", "sig_len">> >>
                            \o Steps("free", SimpleFrees))
  IN  IF nulls \cap {"sig", "sig_len", "sk"} # {} \/ ("msg" \in nulls /\ msg_len > 0)
      THEN SimpleReturn(ERR_INVALID_ARGUMENT, sig, sig_len, "sig_len" \in nulls,
                        << <<"read", "sig_len">>, <<"check", "args">> >>)
      ELSE IF ~KeyFormatOk(sk, 5)
      THEN SimpleReturn(FALCON_ERR_FORMAT, sig, sig_len, FALSE,
                        SimpleExpandSteps \o Steps("free", SimpleFrees))
      ELSE SimpleSigned(sig, sig_len,
                        falcon_sign_tree(shake256_init_prng_from_seed(
                                           Bytes([i \in 1..48 |-> i + 41])),
                                         sig_len, Slice(sk, 0, SK_SIZE),
                                         Slice(msg, 0, msg_len)))

simple_verify(sig, sig_len, pk, msg) ==
  falcon_verify(Slice(sig, 0, sig_len), "COMPRESSED", Slice(pk, 0, PK_SIZE), msg)

(* ------------------- the JavaScript class (index.js) ------------------ *)
Ok(v) == [st |-> "ok", val |-> v]
Throw(e) == [st |-> "throw", val |-> e]

\* TextEncoder.encode: UTF-8, here for code points below 0x800
RECURSIVE TextEncode(_)
TextEncode(str) ==
  IF str = <<>> THEN <<>>
  ELSE (IF Head(str) < 128 THEN <<Head(str)>>
        ELSE <<192 + (Head(str) \div 64), 128 + (Head(str) % 64)>>)
       \o TextEncode(Tail(str))

\* a message is a string (its code points) or a Uint8Array (its bytes)
MsgBytes(message) ==
  IF message.t = "string" THEN Bytes(TextEncode(Plain(message.v))) ELSE message.v

\* what the C side sees at a pointer to a copy of bytes: the copy, then
\* whatever lies behind it on the heap
HeapView(heap, bytes) == Cat(bytes, malloc(heap, 2))

\* the two lengths swapped
KeyObject_swapped(heap, w) ==
  [publicKey |-> Take(Poke(malloc(heap, SK_SIZE), 0, w.pk), SK_SIZE),
   secretKey |-> Take(Poke(malloc(heap, PK_SIZE), 0, w.sk), PK_SIZE)]

KeyObject(heap, w) ==
  [publicKey |-> Take(Poke(malloc(heap, PK_SIZE), 0, w.pk), PK_SIZE),
   secretKey |-> Take(Poke(malloc(heap, SK_SIZE), 0, w.sk), SK_SIZE)]

KeypairResult(heap, w) ==
  IF w.r # 0 THEN Throw("Keygen failed") ELSE Ok(KeyObject(heap, w))

keypair(variant, heap, draw, t) ==
  KeypairResult(heap, falcon_det1024_keygen_wrapper(variant, draw, t))


\* the signature buffer allocated smaller than the length word says
SignCall_small(variant, heap, message, secretKey) ==
  falcon_det1024_sign_compressed_wrapper(
    variant, heap, 0, {}, malloc(heap, 1000),
    SIG_COMPRESSED_MAX_SIZE, HeapView(heap, secretKey), MsgBytes(message),
    BLen(MsgBytes(message)))

\* the C call made by sign, with the buffers index.js hands it
SignCall(variant, heap, message, secretKey) ==
  falcon_det1024_sign_compressed_wrapper(
    variant, heap, 0, {}, malloc(heap, SIG_COMPRESSED_MAX_SIZE),
    SIG_COMPRESSED_MAX_SIZE, HeapView(heap, secretKey), MsgBytes(message),
    BLen(MsgBytes(message)))

\* a shorter key let through
SecretKeySized_atmost(secretKey) == BLen(secretKey) <= SK_SIZE
\* sk.length !== this._SK_LEN throws
SecretKeySized(secretKey) == BLen(secretKey) = SK_SIZE

\* sign after its length check, w being the outcome of its C call:
\* res !== 0 throws; otherwise the first sigLen bytes at sigPtr
SignOutcome(secretKey, w) ==
  IF ~SecretKeySized(secretKey) THEN Throw("Invalid secret key length")
  ELSE IF w.r # 0 THEN Throw("Sign failed")
  ELSE Ok(Take(w.sig, w.sig_len))

sign(variant, heap, message, secretKey) ==
  SignOutcome(secretKey, SignCall(variant, heap, message, secretKey))

\* the C call made by sign of the first index.js
LegacySignCall(heap, message, secretKey) ==
  simple_sign({}, malloc(heap, FALCON_SIG_COMPRESSED_MAXSIZE),
              FALCON_SIG_COMPRESSED_MAXSIZE, HeapView(heap, secretKey),
              MsgBytes(message), BLen(MsgBytes(message)))

convertToConstantTime(heap, compressedSignature) ==
  LET ConvertResult(w) ==
        IF w.r # 0 THEN Throw("Convert to constant-time failed")
        ELSE Ok(Take(w.sig_ct, SIG_CT_SIZE))
  IN  ConvertResult(falcon_det1024_convert_compressed_to_ct_wrapper(
                      malloc(heap, SIG_CT_SIZE), HeapView(heap, compressedSignature),
                      BLen(compressedSignature)))

getSaltVersion(heap, signature) ==
  Ok(falcon_det1024_get_salt_version_wrapper(HeapView(heap, signature)))

VerifyCall(heap, message, signature, publicKey) ==
  falcon_det1024_verify_compressed_wrapper(
    heap, HeapView(heap, signature), BLen(signature), publicKey, MsgBytes(message))

\* res <= 0
Accepted_loose(res) == res <= 0
\* res === 0
Accepted(res) == res = 0

verify(heap, trap, message, signature, publicKey) ==
  LET \* trap: whether this run's out-of-bounds write, if there is one, ends in
      \* an abort of the WebAssembly instance
      VerifyResult(trap0, w) ==
        IF w.ub /\ trap0 THEN Throw("RuntimeError") ELSE Ok(Accepted(w.r))
  IN  IF BLen(publicKey) # PK_SIZE THEN Throw("Invalid public key length")
      ELSE VerifyResult(trap, VerifyCall(heap, message, signature, publicKey))

legacy_verify(heap, message, signature, publicKey) ==
  IF BLen(publicKey) # PK_SIZE THEN Throw("Invalid public key length")
  ELSE Ok(Accepted(simple_verify(HeapView(heap, signature), BLen(signature),
                                 publicKey, MsgBytes(message))))

VerifyCtCall(heap, message, signature, publicKey) ==
  falcon_det1024_verify_ct_wrapper(
    heap, HeapView(heap, signature), publicKey, MsgBytes(message))

verifyConstantTime(heap, message, signature, publicKey) ==
  IF BLen(publicKey) # PK_SIZE THEN Throw("Invalid public key length")
  ELSE IF BLen(signature) # SIG_CT_SIZE THEN Throw("Invalid CT signature length")
  ELSE Ok(Accepted(VerifyCtCall(heap, message, signature, publicKey).r))

(* what a call did inside the WebAssembly instance: whether a wrapper was  *)
(* called, with which null pointers and which failing malloc, its return   *)
(* code, whether the instance trapped, the steps taken by index.js and by  *)
(* the wrapper, the buffers released, the caller's signature buffer and    *)
(* length word before and after, the size of that buffer, and the two      *)
(* sponges as they were handed to the engine                               *)
Wasm(called, nulls, fault, r, trapped, log, freed, sig0, sig_len0, sig, sig_len, room, detrng, hd) ==
  [called |-> called, nulls |-> nulls, fault |-> fault, r |-> r,
   trapped |-> trapped, log |-> log, freed |-> freed,
   sig0 |-> sig0, sig_len0 |-> sig_len0, sig |-> sig, sig_len |-> sig_len,
   room |-> room, detrng |-> detrng, hd |-> hd]

NoWasm ==
  Wasm(FALSE, {}, 0, 0, FALSE, <<>>, <<>>, <<>>, 0, <<>>, 0, 0,
       shake256_init, shake256_init)

\* sign of index.js around its C call w: lines 121-138 the allocations and
\* copies, 140-148 the result taken or the error thrown, 149-155 the four
\* buffers freed as they are, the length word as setValue(.., "i32") stored
\* it and the wrapper rewrote it
SignWasm(wrapper, heap, message, secretKey, room, w) ==
  IF ~SecretKeySized(secretKey) THEN NoWasm
  ELSE Wasm(TRUE, {}, 0, w.r, FALSE,
            << <<"js_malloc", "msgPtr">>, <<"js_malloc", "skPtr">>,
               <<"set", "msgPtr">>, <<"set", "skPtr">>,
               <<"js_malloc", "sigPtr">>, <<"js_malloc", "sigLenPtr">>,
               <<"setValue", "sigLenPtr">>, <<"call", wrapper>> >>
              \o w.log
              \o (IF w.r # 0 THEN << <<"throw", "Sign failed">> >>
                  ELSE << <<"getValue", "sigLenPtr">>, <<"slice", "sigPtr">> >>)
              \o Steps("js_free", <<"msgPtr", "skPtr", "sigPtr", "sigLenPtr">>),
            w.freed
              \o << Buffer("msgPtr", MsgBytes(message), TRUE),
                    Buffer("skPtr", secretKey, TRUE),
                    Buffer("sigPtr", w.sig, w.r = 0),
                    Buffer("sigLenPtr",
                           Bytes(<<w.sig_len % 256, (w.sig_len \div 256) % 256,
                                   (w.sig_len \div 65536) % 256,
                                   w.sig_len \div 16777216>>),
                           TRUE) >>,
            malloc(heap, room), room, w.sig, w.sig_len, room, w.detrng, w.hd)

\* index.js 247-267: verify around its C call
VerifyWasm(wrapper, called, trap, r, log) ==
  IF ~called THEN NoWasm
  ELSE [NoWasm EXCEPT !.called = TRUE, !.r = r, !.trapped = trap,
                      !.log = Steps("js_malloc", <<"msgPtr", "sigPtr", "pkPtr">>)
                                \o Steps("set", <<"msgPtr", "sigPtr", "pkPtr">>)
                                \o << <<"call", wrapper>> >>
                                \o log
                                \o Steps("js_free", <<"msgPtr", "sigPtr", "pkPtr">>)]

(* ------------------ hex strings (index.js, static methods) ------------ *)
\* A string is a sequence of runs <<unit, n>>: the characters of unit, one
\* or two of them, n times over.
HexChars ==
  <<"0", "1", "2", "3", "4", "5", "6", "7", "8", "9", "a", "b", "c", "d",
    "e", "f">>

\* b.toString(16) for a byte
ToString16(b) ==
  IF b < 16 THEN <<HexChars[b + 1]>>
  ELSE <<HexChars[(b \div 16) + 1], HexChars[(b % 16) + 1]>>

\* Array.from(bytes).map(b => b.toString(16).padStart(2, "0")).join("")
bytesToHex(bytes) ==
  LET padStart(str, n, c) == [i \in 1..(n - Len(str)) |-> c] \o str
  IN  [i \in DOMAIN bytes |->
         <<padStart(ToString16(bytes[i][1]), 2, "0"), bytes[i][2]>>]

\* parseInt(chunk, 16) stored into a Uint8Array: the digits up to the first
\* character that is not one, in either case; NaN is stored as 0
parseInt(chunk) ==
  LET Upper == <<"A", "B", "C", "D", "E", "F">>
      Digit(c) ==
        IF \E d \in DOMAIN HexChars : HexChars[d] = c
        THEN (CHOOSE d \in DOMAIN HexChars : HexChars[d] = c) - 1
        ELSE IF \E d \in DOMAIN Upper : Upper[d] = c
        THEN (CHOOSE d \in DOMAIN Upper : Upper[d] = c) + 9
        ELSE -1
  IN  IF Digit(chunk[1]) < 0 THEN 0
      ELSE IF Len(chunk) = 1 \/ Digit(chunk[2]) < 0 THEN Digit(chunk[1])
      ELSE 16 * Digit(chunk[1]) + Digit(chunk[2])

\* hex.match(/.{1,2}/g).map(b => parseInt(b, 16)): the characters two by
\* two from the start, a last chunk of one when their number is odd; carry
\* is the character the runs before left over
RECURSIVE MatchPairs(_, _)
MatchPairs(hex, carry) ==
  IF hex = <<>>
  THEN IF carry = <<>> THEN <<>> ELSE << <<parseInt(carry), 1>> >>
  ELSE IF hex[1][2] = 0 \/ hex[1][1] = <<>> THEN MatchPairs(Tail(hex), carry)
  ELSE IF carry = <<>>
  THEN IF Len(hex[1][1]) = 2
       THEN << <<parseInt(hex[1][1]), hex[1][2]>> >>
            \o MatchPairs(Tail(hex), <<>>)
       ELSE << <<parseInt(hex[1][1] \o hex[1][1]), hex[1][2] \div 2>> >>
            \o MatchPairs(Tail(hex),
                          IF hex[1][2] % 2 = 1 THEN hex[1][1] ELSE <<>>)
  ELSE IF Len(hex[1][1]) = 1
  THEN << <<parseInt(carry \o hex[1][1]), 1>> >>
       \o MatchPairs(<< <<hex[1][1], hex[1][2] - 1>> >> \o Tail(hex), <<>>)
  ELSE << <<parseInt(carry \o <<hex[1][1][1]>>), 1>>,
          <<parseInt(<<hex[1][1][2], hex[1][1][1]>>), hex[1][2] - 1>> >>
       \o MatchPairs(Tail(hex), <<hex[1][1][2]>>)

\* new Uint8Array(hex.match(/.{1,2}/g).map(...)): match returns null on the
\* empty string, and null has no map
hexToBytes(hex) ==
  IF \A j \in DOMAIN hex : hex[j][2] = 0 \/ hex[j][1] = <<>>
  THEN Throw("TypeError")
  ELSE Ok(Norm(MatchPairs(hex, <<>>)))

(* --------------------------- the program ------------------------------ *)
VARIABLES build, draws, clock, keys, sigs, last, wasm, cli, loop, sdk

vars == <<build, draws, clock, keys, sigs, last, wasm, cli, loop, sdk>>

\* build: which wrapper the module was compiled from.  draws: seeds drawn
\* from libsodium so far.  clock: the time the clock-seeded wrapper reads.
\* keys: the key pairs keypair() has returned.  sigs: the first signature
\* sign() returned, with the call that made it, kept so that later calls can
\* be compared with it.  last: the call whose promise has just settled.
\* wasm: what that call did inside the WebAssembly instance.  cli: the run
\* of falcon-cli.js that made the call, if one did.  loop: one instance of
\* the class on the JavaScript event loop, with the calls issued on it.
\* sdk: an account operation of the Algorand SDK object and its result.

\* the three builds of the package: index.js over the wrapper seeded by
\* libsodium, index.js over the wrapper seeded from the clock, and the
\* first index.js over falcon_wrapper.c
DetBuild == build # "legacy"
Variant == IF build = "sodium" THEN "A" ELSE "B"

\* what a fresh allocation may hold
HeapBytes == {0, 165}

\* the longest of the short byte arrays given to the hex utilities
MaxHexLen == 2

\* the calls issued on one instance
MaxCalls == 2

\* for (let counter = 0; counter < 256; counter++)
AttemptLimit == 256

NoMessage == [t |-> "bytes", v |-> <<>>]

Messages ==
  { NoMessage,
    [t |-> "bytes", v |-> Bytes(<<72, 105>>)],
    [t |-> "string", v |-> Bytes(<<72, 233>>)] }

\* one call of a method of the class: its arguments, what the heap held,
\* its outcome, and the salt and the salted signature the C side worked on
Call(op, msg, sig, key, heap, out, salt, inner) ==
  [op |-> op, msg |-> msg, sig |-> sig, key |-> key, heap |-> heap,
   out |-> out, salt |-> salt, inner |-> inner]

\* no call is pending
NoCall == Call("none", NoMessage, <<>>, <<>>, 0, Throw("none"), <<>>, <<>>)

\* the instance as the constructor leaves it: the factory called once, its
\* promise pending, and so the promise of the SDK object built on it
NewFalcon ==
  [factory |-> 1, init |-> "pending", sdk |-> "pending", calls |-> <<>>,
   running |-> 0, blocks |-> <<>>]

\* the SDK object before any account operation.  offCurve: the counters
\* whose compiled program has an address off the ed25519 curve.  -1 stands
\* for null in programBytes and escrowAddress; otherwise they hold the
\* counter of the program they were taken from.
NewSdk ==
  [st |-> "idle", variant |-> "js", op |-> "none", edKeys |-> FALSE,
   offCurve |-> {}, counter |-> 0, compiles |-> <<>>, programBytes |-> -1,
   escrowAddress |-> -1, edpCounter |-> 0, out |-> Throw("none"),
   accountInfo |-> <<>>, includeSecretKey |-> FALSE, json |-> <<>>,
   restored |-> <<>>]

\* one run of falcon-cli.js: its arguments, the methods of the class it
\* called, the bytes it made of its signature argument and its exit code
Cli(cmd, message, bytes, signature, publicKey, invoked, back, exit) ==
  [cmd |-> cmd, message |-> message, bytes |-> bytes,
   signature |-> signature, publicKey |-> publicKey, invoked |-> invoked,
   back |-> back, exit |-> exit]

NoCli == Cli("none", NoMessage, <<>>, <<>>, <<>>, <<>>, Throw("none"), 0)

\* the caller has taken the result of the call before, and no command line
\* run is under way
Idle == last.op = "none" /\ cli = NoCli

Init ==
  /\ build \in {"sodium", "timeseed", "legacy"}
  /\ draws = 0
  /\ clock = 0
  /\ keys = <<>>
  /\ sigs = <<>>
  /\ last = NoCall
  /\ wasm = NoWasm
  /\ cli = NoCli
  /\ loop = NewFalcon
  /\ sdk = NewSdk

(* the arguments callers pass: what earlier calls returned, and damaged   *)
(* or foreign variants of it                                              *)
SkCandidates ==
  {keys[i].secretKey : i \in DOMAIN keys}
  \cup (IF keys = <<>> THEN {<<>>}
        ELSE { Take(keys[1].secretKey, SK_SIZE - 1),
               Poke(keys[1].secretKey, 0, Rep(89, 1)),
               Poke(keys[1].secretKey, 0, Rep(10, 1)) })

PkCandidates ==
  {keys[i].publicKey : i \in DOMAIN keys}
  \cup (IF keys = <<>> THEN {<<>>}
        ELSE { Take(keys[1].publicKey, 100),
               FlipBit(keys[1].publicKey, 0, 4),
               FlipBit(keys[1].publicKey, 1, 0) })

SigCandidates ==
  LET Tampered(s) ==
        { s, FlipBit(s, 0, 6), FlipBit(s, 1, 0), FlipBit(s, 2, 0),
          FlipBit(s, BLen(s) - 1, 7), Take(s, BLen(s) - 1), Cat(s, Rep(0, 1)),
          Cat(s, Rep(0, SIG_COMPRESSED_MAX_SIZE)) }
  IN  { <<>>, Rep(186, 1), Rep(0, 60) } \cup UNION { Tampered(sigs[i].sig) : i \in DOMAIN sigs }

CtOf(s) ==
  LET Returned(out) == IF out.st = "ok" THEN {out.val} ELSE {}
  IN  Returned(convertToConstantTime(0, s))

\* compressed signatures that are well formed whatever their content
Reworked(s) == { s, FlipBit(s, 1, 0), FlipBit(s, 2, 0) }

CtCandidates ==
  LET CtTampered(c0) ==
        { c0, FlipBit(c0, 0, 6), FlipBit(c0, 1, 0), FlipBit(c0, 2, 0),
          FlipBit(c0, SIG_CT_SIZE - 1, 0), Take(c0, SIG_CT_SIZE - 1), Cat(c0, Rep(0, 1)) }
  IN  { <<>>, Rep(218, 2) }
      \cup {sigs[i].sig : i \in DOMAIN sigs}
      \cup UNION { UNION { CtTampered(c) : c \in CtOf(sigs[i].sig) } : i \in DOMAIN sigs }
      \cup UNION { UNION { CtOf(t) : t \in Reworked(sigs[i].sig) } : i \in DOMAIN sigs }

(* ------------------------------ actions ------------------------------- *)

Keypair ==
  LET KeypairDone(heap0, out) ==
        /\ keys' = IF out.st = "ok" THEN Append(keys, out.val) ELSE keys
        /\ last' = Call("keypair", NoMessage, <<>>, <<>>, heap0, out, <<>>, <<>>)
  IN  /\ Idle
      /\ Len(keys) < MaxKeys
      /\ build = "sodium" => draws < MaxSeed
      /\ build = "timeseed" => clock < MaxClock
      /\ \E heap \in HeapBytes :
           KeypairDone(heap, IF DetBuild THEN keypair(Variant, heap, draws + 1, clock)
                             ELSE KeypairResult(heap, simple_keygen))
      /\ draws' = IF build = "sodium" THEN draws + 1 ELSE draws
      /\ clock' = IF build = "timeseed" THEN clock + 1 ELSE clock
      /\ wasm' = [NoWasm EXCEPT !.called = TRUE]
      /\ UNCHANGED <<cli, loop, sdk, build, sigs>>

\* the salt and the salted signature a successful sign worked on
SignSalt(out, w) ==
  IF out.st # "ok" THEN <<>>
  ELSE IF DetBuild THEN w.salt ELSE Slice(out.val, 1, SALT_LEN)

SignInner(out, w) ==
  IF out.st # "ok" THEN <<>> ELSE IF DetBuild THEN w.inner ELSE out.val

Sign ==
  LET SignDone(heap0, m0, sk0, out, w0) ==
        /\ sigs' = IF out.st = "ok" /\ sigs = <<>>
                   THEN Append(sigs, [msg |-> m0, sk |-> sk0, sig |-> out.val,
                                      heap |-> heap0, salt |-> SignSalt(out, w0),
                                      inner |-> SignInner(out, w0)])
                   ELSE sigs
        /\ last' = Call("sign", m0, <<>>, sk0, heap0, out,
                        SignSalt(out, w0), SignInner(out, w0))
  IN  /\ Idle
      /\ \E heap \in HeapBytes, m \in Messages, sk \in SkCandidates :
           \E w \in {IF DetBuild THEN SignCall(Variant, heap, m, sk)
                     ELSE LegacySignCall(heap, m, sk)} :
             /\ SignDone(heap, m, sk, SignOutcome(sk, w), w)
             /\ wasm' = IF DetBuild
                        THEN SignWasm("falcon_det1024_sign_compressed_wrapper",
                                      heap, m, sk, SIG_COMPRESSED_MAX_SIZE, w)
                        ELSE SignWasm("simple_sign", heap, m, sk,
                                      FALCON_SIG_COMPRESSED_MAXSIZE, w)
      /\ UNCHANGED <<cli, loop, sdk, build, draws, clock, keys>>

VerifyDone(heap, m, sig, pk, trap, called, out, w) ==
  /\ trap => DetBuild /\ called /\ w.ub
  /\ wasm' = IF DetBuild
             THEN VerifyWasm("falcon_det1024_verify_compressed_wrapper",
                             called, trap, w.r, w.log)
             ELSE VerifyWasm("simple_verify", called, FALSE,
                             simple_verify(HeapView(heap, sig), BLen(sig), pk,
                                           MsgBytes(m)),
                             << <<"call", "falcon_verify">> >>)
  /\ last' = Call("verify", m, sig, pk, heap, out,
                  IF DetBuild /\ called THEN w.salt ELSE <<>>,
                  IF ~called THEN <<>> ELSE IF DetBuild THEN w.inner ELSE sig)

Verify ==
  /\ Idle
  /\ \E heap \in HeapBytes, m \in Messages, sig \in SigCandidates,
        pk \in PkCandidates, trap \in BOOLEAN :
       VerifyDone(heap, m, sig, pk, trap, BLen(pk) = PK_SIZE,
                  IF DetBuild THEN verify(heap, trap, m, sig, pk)
                  ELSE legacy_verify(heap, m, sig, pk),
                  VerifyCall(heap, m, sig, pk))
  /\ UNCHANGED <<cli, loop, sdk, build, draws, clock, keys, sigs>>

VerifyConstantTimeDone(heap, m, sig, pk, called, out, w) ==
  /\ last' = Call("verifyConstantTime", m, sig, pk, heap, out,
                  IF called THEN w.salt ELSE <<>>,
                  IF called THEN w.inner ELSE <<>>)
  /\ wasm' = VerifyWasm("falcon_det1024_verify_ct_wrapper", called, FALSE,
                        w.r, w.log)

VerifyConstantTime ==
  /\ Idle
  /\ DetBuild
  /\ \E heap \in HeapBytes, m \in Messages, sig \in CtCandidates,
        pk \in PkCandidates :
       VerifyConstantTimeDone(heap, m, sig, pk,
                              BLen(pk) = PK_SIZE /\ BLen(sig) = SIG_CT_SIZE,
                              verifyConstantTime(heap, m, sig, pk),
                              VerifyCtCall(heap, m, sig, pk))
  /\ UNCHANGED <<cli, loop, sdk, build, draws, clock, keys, sigs>>

ConvertToConstantTime ==
  /\ Idle
  /\ DetBuild
  /\ \E heap \in HeapBytes, sig \in SigCandidates :
       last' = Call("convertToConstantTime", NoMessage, sig, <<>>, heap,
                    convertToConstantTime(heap, sig), <<>>, <<>>)
  /\ wasm' = [NoWasm EXCEPT !.called = TRUE]
  /\ UNCHANGED <<cli, loop, sdk, build, draws, clock, keys, sigs>>

GetSaltVersion ==
  /\ Idle
  /\ DetBuild
  /\ \E heap \in HeapBytes, sig \in SigCandidates \cup CtCandidates :
       last' = Call("getSaltVersion", NoMessage, sig, <<>>, heap,
                    getSaltVersion(heap, sig), <<>>, <<>>)
  /\ wasm' = [NoWasm EXCEPT !.called = TRUE]
  /\ UNCHANGED <<cli, loop, sdk, build, draws, clock, keys, sigs>>

(* The signing wrapper is an export of the module (EXPORTED_FUNCTIONS):   *)
(* code other than the Falcon class calls it with pointers and lengths of  *)
(* its own choice, and its mallocs may fail.                               *)
(* The null pointers tried are one at a time and the length pointer with   *)
(* the message pointer; the room is the least accepted and one byte less;  *)
(* fault names the malloc that returns NULL, 0 for none.  A read through a *)
(* null pointer either traps the instance or goes on.                      *)
CallSignWrapper ==
  /\ Idle
  /\ \E heap \in HeapBytes, fault \in 0..Len(Scratch),
        nulls \in { {}, {"sig"}, {"sig_len"}, {"sk"}, {"msg"}, {"sig_len", "msg"} },
        room \in { SIG_COMPRESSED_MAX_SIZE - 1, SIG_COMPRESSED_MAX_SIZE },
        m \in Messages, sk \in {k \in SkCandidates : BLen(k) = SK_SIZE},
        trap \in BOOLEAN :
       /\ fault # 0 => DetBuild /\ nulls = {} /\ room = SIG_COMPRESSED_MAX_SIZE
       /\ \E w \in {IF DetBuild
                    THEN falcon_det1024_sign_compressed_wrapper(
                           Variant, heap, fault, nulls, malloc(heap, room), room,
                           HeapView(heap, sk), MsgBytes(m), BLen(MsgBytes(m)))
                    ELSE simple_sign(nulls, malloc(heap, room), room,
                                     HeapView(heap, sk), MsgBytes(m),
                                     BLen(MsgBytes(m)))} :
            /\ trap => w.ub
            /\ last' = Call("sign_wrapper", m, <<>>, sk, heap,
                            IF trap THEN Throw("RuntimeError") ELSE Ok(w.r),
                            w.salt, w.inner)
            /\ wasm' = Wasm(TRUE, nulls, fault, w.r, trap, w.log, w.freed,
                            malloc(heap, room), room,
                            IF trap THEN malloc(heap, room) ELSE w.sig,
                            IF trap THEN room ELSE w.sig_len,
                            room, w.detrng, w.hd)
  /\ UNCHANGED <<cli, loop, sdk, build, draws, clock, keys, sigs>>

\* the byte offsets a caller's bit flip lands on in the coefficient region of
\* a compressed signature: its first two bytes, its middle and its last byte
FlipPositions(s) == {2, 3, BLen(s) \div 2, BLen(s) - 1}

\* verify called with the message that was signed, the signer's public key
\* and the signature sign returned with one bit of its coefficient region
\* changed
VerifyTampered ==
  /\ Idle
  /\ sigs # <<>>
  /\ \E heap \in HeapBytes, k \in DOMAIN keys,
        pos \in FlipPositions(sigs[1].sig), bit \in 0..7 :
       /\ keys[k].secretKey = sigs[1].sk
       /\ \E sig \in {FlipBit(sigs[1].sig, pos, bit)} :
            VerifyDone(heap, sigs[1].msg, sig, keys[k].publicKey, FALSE, TRUE,
                       IF DetBuild
                       THEN verify(heap, FALSE, sigs[1].msg, sig,
                                   keys[k].publicKey)
                       ELSE legacy_verify(heap, sigs[1].msg, sig,
                                          keys[k].publicKey),
                       VerifyCall(heap, sigs[1].msg, sig, keys[k].publicKey))
  /\ UNCHANGED <<cli, loop, sdk, build, draws, clock, keys, sigs>>

(* ------------------------ falcon-cli.js ------------------------------- *)
\* the comparison made with anything but the constant-time header
handleVerify_else(sigBytes) ==
  IF sigBytes.st # "ok" THEN "none"
  ELSE IF At(sigBytes.val, 0) = FALCON_DET1024_SIG_CT_HEADER
  THEN "verifyConstantTime"
  ELSE "verify"

\* handleVerify: the method of the class it calls for the bytes of its
\* signature argument; none when hexToBytes threw or the header byte is
\* neither tag, where the process exits with 1
handleVerify(sigBytes) ==
  IF sigBytes.st # "ok" THEN "none"
  ELSE IF At(sigBytes.val, 0) = FALCON_DET1024_SIG_COMPRESSED_HEADER
  THEN "verify"
  ELSE IF At(sigBytes.val, 0) = FALCON_DET1024_SIG_CT_HEADER
  THEN "verifyConstantTime"
  ELSE "none"

\* the signature arguments of the verify command: the hex of what sign and
\* convert returned and of damaged variants, and strings bytesToHex never
\* makes
CliSignatures ==
  {bytesToHex(g) : g \in SigCandidates \cup CtCandidates}
  \cup { << <<<<"b">>, 1>> >>,
         << <<<<"B", "A">>, 1>>, <<<<"0">>, 81>> >>,
         << <<<<"g", "z">>, 3>> >> }

\* falcon-cli.js verify <message> <hex_sig> <hex_pk>.  The first file of that
\* name goes through handleVerify; the second one, over the first index.js,
\* calls verify whatever the signature.
CliVerify ==
  /\ Idle
  /\ \E heap \in HeapBytes, trap \in BOOLEAN,
        message \in {m \in Messages : m.t = "string"},
        signature \in CliSignatures, key \in PkCandidates :
       \E sigBytes \in {hexToBytes(signature)},
          pk \in {hexToBytes(bytesToHex(key))} :
         \E v \in {IF DetBuild THEN handleVerify(sigBytes) ELSE "verify"} :
           /\ trap => v = "verify"
           /\ IF v = "none" THEN UNCHANGED <<last, wasm>>
              ELSE IF sigBytes.st # "ok" \/ pk.st # "ok"
              THEN /\ ~trap
                   /\ last' = Call(v, message, <<>>, <<>>, heap,
                                   Throw("TypeError"), <<>>, <<>>)
                   /\ wasm' = NoWasm
              ELSE IF v = "verify"
              THEN VerifyDone(heap, message, sigBytes.val, pk.val, trap,
                              BLen(pk.val) = PK_SIZE,
                              IF DetBuild
                              THEN verify(heap, trap, message, sigBytes.val,
                                          pk.val)
                              ELSE legacy_verify(heap, message, sigBytes.val,
                                                 pk.val),
                              VerifyCall(heap, message, sigBytes.val, pk.val))
              ELSE VerifyConstantTimeDone(
                     heap, message, sigBytes.val, pk.val,
                     BLen(pk.val) = PK_SIZE /\ BLen(sigBytes.val) = SIG_CT_SIZE,
                     verifyConstantTime(heap, message, sigBytes.val, pk.val),
                     VerifyCtCall(heap, message, sigBytes.val, pk.val))
           /\ cli' = Cli("verify", message, <<>>, signature, bytesToHex(key),
                         IF v = "none" THEN <<>> ELSE <<v>>, sigBytes,
                         IF v = "none" \/ last'.out.st = "throw" THEN 1 ELSE 0)
  /\ UNCHANGED <<loop, sdk, build, draws, clock, keys, sigs>>

\* the byte arrays the hex utilities are given: short ones of every mix of
\* one- and two-digit bytes, and the keys and signatures in circulation
HexInputs ==
  {Bytes(b) : b \in UNION {[1..n -> {0, 10, 16, 171, 255}] : n \in 0..MaxHexLen}}
  \cup {keys[i].publicKey : i \in DOMAIN keys}
  \cup {sigs[i].sig : i \in DOMAIN sigs}

\* hexToBytes(bytesToHex(b)), as falcon-test.js does with a public key
HexRoundTrip ==
  /\ Idle
  /\ \E b \in HexInputs :
       cli' = Cli("hex", NoMessage, b, bytesToHex(b), <<>>, <<>>,
                  hexToBytes(bytesToHex(b)), 0)
  /\ UNCHANGED <<loop, sdk, build, draws, clock, keys, sigs, last, wasm>>

(* ------------- one instance on the event loop (index.js) -------------- *)
\* The steps of a method after another: what it does (await, check, malloc,
\* set, call, free), on what, and whether inside its try block.
Do(kind, names, guarded) ==
  [i \in DOMAIN names |-> [do |-> kind, on |-> names[i], try |-> guarded]]

\* sign with an await between its allocations and the wrapper call
Program_yielding(op) ==
  Do("await", <<"init">>, FALSE) \o Do("malloc", <<"msg", "sk">>, FALSE)
  \o Do("await", <<"init">>, FALSE) \o Do("call", <<"sign">>, TRUE)
  \o Do("free", <<"msg", "sk">>, TRUE)

Program(op) ==
  CASE op = "keypair" ->
         Do("await", <<"init">>, FALSE) \o Do("malloc", <<"pk", "sk">>, FALSE)
         \o Do("call", <<"keygen">>, TRUE) \o Do("free", <<"pk", "sk">>, TRUE)
    [] op = "sign" ->
         Do("await", <<"init">>, FALSE) \o Do("check", <<"sk">>, FALSE)
         \o Do("malloc", <<"msg", "sk">>, FALSE)
         \o Do("set", <<"msg", "sk">>, FALSE)
         \o Do("malloc", <<"sig", "sigLen">>, FALSE)
         \o Do("set", <<"sigLen">>, FALSE) \o Do("call", <<"sign">>, TRUE)
         \o Do("free", <<"msg", "sk", "sig", "sigLen">>, TRUE)
    [] op = "convertToConstantTime" ->
         Do("await", <<"init">>, FALSE)
         \o Do("malloc", <<"compSig", "ctSig">>, FALSE)
         \o Do("set", <<"compSig">>, FALSE) \o Do("call", <<"convert">>, TRUE)
         \o Do("free", <<"compSig", "ctSig">>, TRUE)
    [] op = "getSaltVersion" ->
         Do("await", <<"init">>, FALSE) \o Do("malloc", <<"sig">>, FALSE)
         \o Do("set", <<"sig">>, FALSE) \o Do("call", <<"salt">>, TRUE)
         \o Do("free", <<"sig">>, TRUE)
    [] op \in {"verify", "verifyConstantTime"} ->
         Do("await", <<"init">>, FALSE) \o Do("check", <<"pk">>, FALSE)
         \o Do("malloc", <<"msg", "sig", "pk">>, FALSE)
         \o Do("set", <<"msg", "sig", "pk">>, FALSE)
         \o Do("call", <<"verify">>, TRUE)
         \o Do("free", <<"msg", "sig", "pk">>, TRUE)
    [] op = "createFalconAccount" ->
         Do("await", <<"sdk", "init">>, FALSE)
         \o Do("malloc", <<"pk", "sk">>, FALSE)
         \o Do("call", <<"keygen">>, TRUE) \o Do("free", <<"pk", "sk">>, TRUE)

\* _ensureInitialized returning at once whatever the flag
ensureInitialized_nowait(initialized) == "return"

\* _ensureInitialized: awaits the constructor's promise unless the flag is set
ensureInitialized(initialized) ==
  IF ~initialized THEN "await _initPromise" ELSE "return"

\* the factory's promise settles: _init stores the module and the sizes and
\* sets the flag, or throws its error
InitSettles ==
  /\ loop.running = 0
  /\ loop.init = "pending"
  /\ \E ok \in BOOLEAN :
       loop' = [loop EXCEPT !.init = IF ok THEN "ready" ELSE "failed"]
  /\ UNCHANGED <<build, draws, clock, keys, sigs, last, wasm, cli, sdk>>

\* _initialize of the SDK object resumes after the instance's promise
SdkInitSettles ==
  /\ loop.running = 0
  /\ loop.sdk = "pending"
  /\ ensureInitialized(loop.init = "ready") = "return" \/ loop.init # "pending"
  /\ loop' = [loop EXCEPT !.sdk = loop.init]
  /\ UNCHANGED <<build, draws, clock, keys, sigs, last, wasm, cli, sdk>>

\* the caller issues a call; bad: what is wrong with its arguments (a key
\* of wrong length, an array the heap copy throws on, input the wrapper
\* returns a non-zero code for)
Start ==
  /\ loop.running = 0
  /\ Len(loop.calls) < MaxCalls
  /\ \E op \in {"keypair", "sign", "verify", "verifyConstantTime",
                "convertToConstantTime", "getSaltVersion",
                "createFalconAccount"},
        bad \in {"none", "check", "set", "call"} :
       /\ bad = "none" \/ \E i \in DOMAIN Program(op) : Program(op)[i].do = bad
       /\ bad = "call" => op \in {"keypair", "sign", "convertToConstantTime"}
       /\ loop' = [loop EXCEPT !.calls =
                     Append(@, [op |-> op, bad |-> bad, pc |-> 1,
                                st |-> "pending", err |-> "none",
                                before |-> loop.init = "pending",
                                early |-> FALSE])]
  /\ UNCHANGED <<build, draws, clock, keys, sigs, last, wasm, cli, sdk>>

\* the call's next step.  An await gives the thread away; everything else
\* keeps it until the promise settles.  An exception inside the try block
\* goes to the frees of finally, one outside it rejects at once.
Step ==
  \E c \in DOMAIN loop.calls :
    /\ loop.running \in {0, c}
    /\ loop.calls[c].st = "pending"
    /\ \E prog \in {Program(loop.calls[c].op)} :
         \E s \in {prog[loop.calls[c].pc]} :
           \E ready \in {IF s.on = "sdk" THEN loop.sdk ELSE loop.init} :
             \E end \in {loop.calls[c].pc = Len(prog)} :
               IF s.do = "await"
               THEN /\ ensureInitialized(ready = "ready") = "return"
                       \/ ready # "pending"
                    /\ loop' =
                         [loop EXCEPT
                            !.running = 0,
                            !.calls[c] =
                              IF ensureInitialized(ready = "ready") = "return"
                                 \/ ready = "ready"
                              THEN [@ EXCEPT !.pc = @ + 1]
                              ELSE [@ EXCEPT
                                      !.st = "rejected",
                                      !.err = "Failed to initialize Falcon module"]]
               ELSE IF s.do = loop.calls[c].bad /\ loop.calls[c].err = "none"
               THEN loop' =
                      [loop EXCEPT
                         !.running = IF s.try THEN c ELSE 0,
                         !.calls[c] =
                           [@ EXCEPT
                              !.err = s.do,
                              !.early = @ \/ loop.init # "ready",
                              !.st = IF s.try THEN "pending" ELSE "rejected",
                              !.pc = IF s.try
                                     THEN CHOOSE i \in DOMAIN prog :
                                            /\ prog[i].do = "free"
                                            /\ \A j \in 1..(i - 1) :
                                                 prog[j].do # "free"
                                     ELSE @]]
               ELSE loop' =
                      [loop EXCEPT
                         !.running = IF end THEN 0 ELSE c,
                         !.blocks =
                           IF s.do = "malloc"
                           THEN Append(@, [call |-> c, name |-> s.on,
                                           frees |-> 0])
                           ELSE IF s.do = "free"
                           THEN [b \in DOMAIN @ |->
                                   IF @[b].call = c /\ @[b].name = s.on
                                   THEN [@[b] EXCEPT !.frees = @ + 1]
                                   ELSE @[b]]
                           ELSE @,
                         !.calls[c] =
                           [@ EXCEPT
                              !.early = @ \/ loop.init # "ready",
                              !.pc = IF end THEN @ ELSE @ + 1,
                              !.st = IF ~end THEN "pending"
                                     ELSE IF loop.calls[c].err = "none" THEN "resolved"
                                     ELSE "rejected"]]
    /\ UNCHANGED <<build, draws, clock, keys, sigs, last, wasm, cli, sdk>>

(* --------------- accounts (falcon-algo-sdk/index.js) ------------------ *)
\* An object is a function from the paths of its members to their values;
\* a JSON text is the sequence of its members.
Stringify(obj) ==
  LET Keys == <<"address", "falconKeys.publicKey", "falconKeys.secretKey",
                "backupAccount", "backupAccount.address",
                "backupAccount.mnemonic", "backupAccount.publicKey",
                "logicSig.counter", "logicSig.program", "logicSig.address",
                "type", "backedUp", "restored">>
      ks == SelectSeq(Keys, LAMBDA k : k \in DOMAIN obj)
  IN  [i \in DOMAIN ks |-> <<ks[i], obj[ks[i]]>>]

Parse(text) ==
  [k \in {text[i][1] : i \in DOMAIN text} |->
     (CHOOSE m \in {text[i] : i \in DOMAIN text} : m[1] = k)[2]]

\* obj with member k set to v
Put(obj, k, v) ==
  [j \in DOMAIN obj \cup {k} |-> IF j = k THEN v ELSE obj[j]]

\* the members stripped from the caller's object itself
backupAccount_inplace(accountInfo, includeSecretKey) ==
  LET kept == IF includeSecretKey THEN DOMAIN accountInfo
              ELSE DOMAIN accountInfo
                   \ {"falconKeys.secretKey", "backupAccount.mnemonic"}
      backup == [k \in kept |-> accountInfo[k]]
  IN  [json |-> Stringify(Put(backup, "backedUp", "now")),
       accountInfo |-> Put(backup, "backedUp", "now")]

\* backupAccount: the JSON it returns, and the caller's object afterwards
backupAccount(accountInfo, includeSecretKey) ==
  LET backup == Put(Parse(Stringify(accountInfo)), "backedUp", "now")
      kept == IF includeSecretKey THEN DOMAIN backup
              ELSE DOMAIN backup
                   \ ({"falconKeys.secretKey"}
                      \cup (IF "backupAccount" \in DOMAIN backup THEN {}
                            ELSE {"backupAccount.mnemonic"}))
  IN  [json |-> Stringify([k \in kept |-> backup[k]]),
       accountInfo |-> accountInfo]

restoreAccount(backupJson, secretKey) ==
  LET accountInfo == Parse(backupJson)
  IN  Put(IF "falconKeys.secretKey" \notin DOMAIN accountInfo
             /\ secretKey # "null"
          THEN Put(accountInfo, "falconKeys.secretKey", secretKey)
          ELSE accountInfo,
          "restored", "now")

\* the loop going on to the next counter after an off-curve address
Search_nobreak(s) ==
  [s EXCEPT !.counter = @ + 1,
            !.compiles = Append(@, s.counter),
            !.programBytes = s.counter,
            !.edpCounter = IF s.counter \in s.offCurve THEN s.counter ELSE @,
            !.escrowAddress = IF s.counter \in s.offCurve THEN s.counter
                              ELSE @,
            !.st = IF s.counter + 1 < AttemptLimit THEN "loop" ELSE "after"]

\* one pass of the loop over counter: compile the program of this counter,
\* keep its bytes, and on an off-curve address keep counter and address and
\* break
Search(s) ==
  IF s.counter \in s.offCurve
  THEN [s EXCEPT !.compiles = Append(@, s.counter),
                 !.programBytes = s.counter,
                 !.edpCounter = s.counter,
                 !.escrowAddress = s.counter,
                 !.st = "after"]
  ELSE [s EXCEPT !.counter = @ + 1,
                 !.compiles = Append(@, s.counter),
                 !.programBytes = s.counter,
                 !.st = IF s.counter + 1 < AttemptLimit THEN "loop"
                        ELSE "after"]

\* createFalconAccount or convertToFalconAccount is called and reaches its
\* loop, in the JavaScript or in the TypeScript variant of the file
StartAccount ==
  /\ sdk.st = "idle"
  /\ \E variant \in {"js", "ts"},
        op \in {"createFalconAccount", "convertToFalconAccount"},
        edKeys \in BOOLEAN,
        offCurve \in {{}, {0}, {2, 5}, {AttemptLimit - 1, AttemptLimit},
                      0..(AttemptLimit - 1)} :
       /\ op = "convertToFalconAccount" => edKeys
       /\ sdk' = [NewSdk EXCEPT !.st = "loop", !.variant = variant,
                                !.op = op, !.edKeys = edKeys,
                                !.offCurve = offCurve]
  /\ UNCHANGED <<build, draws, clock, keys, sigs, last, wasm, cli, loop>>

Compile ==
  /\ sdk.st = "loop"
  /\ sdk' = Search(sdk)
  /\ UNCHANGED <<build, draws, clock, keys, sigs, last, wasm, cli, loop>>

\* after the loop: the TypeScript variant throws when nothing was selected;
\* the JavaScript variant goes on, and what algosdk makes of a rekey to null
\* in convertToFalconAccount is open
AfterLoop ==
  /\ sdk.st = "after"
  /\ \E thrown \in BOOLEAN :
       \E info \in {[k \in {"address", "falconKeys.publicKey",
                            "falconKeys.secretKey", "logicSig.counter",
                            "logicSig.program", "logicSig.address", "type"}
                            \cup (IF sdk.edKeys
                                  THEN {"backupAccount.address",
                                        "backupAccount.mnemonic",
                                        "backupAccount.publicKey"}
                                  ELSE {"backupAccount"}) |->
                       CASE k \in {"address", "logicSig.address"} ->
                              IF sdk.escrowAddress < 0 THEN "null"
                              ELSE ToString(sdk.escrowAddress)
                         [] k = "logicSig.counter" -> ToString(sdk.edpCounter)
                         [] k = "logicSig.program" ->
                              ToString(sdk.programBytes)
                         [] k = "backupAccount" -> "null"
                         [] OTHER -> k]} :
         \E failed \in {sdk.variant = "ts"
                         /\ (sdk.programBytes < 0 \/ sdk.escrowAddress < 0)} :
           /\ thrown =>
                /\ sdk.variant = "js"
                /\ sdk.op = "convertToFalconAccount"
                /\ sdk.escrowAddress < 0
           /\ sdk' =
                [sdk EXCEPT
                   !.st = "done",
                   !.out =
                     IF failed
                     THEN Throw("Failed to generate an off-curve LogicSig address")
                     ELSE IF thrown THEN Throw("algosdk")
                     ELSE Ok(info),
                   !.accountInfo = IF failed \/ thrown THEN <<>> ELSE info]
  /\ UNCHANGED <<build, draws, clock, keys, sigs, last, wasm, cli, loop>>

\* the caller backs the account up and restores it from the JSON
BackupAndRestore ==
  /\ sdk.st = "done"
  /\ sdk.out.st = "ok"
  /\ sdk.json = <<>>
  /\ \E includeSecretKey \in BOOLEAN,
        secretKey \in {"null", "falconKeys.secretKey"} :
       \E b \in {backupAccount(sdk.accountInfo, includeSecretKey)} :
         sdk' = [sdk EXCEPT !.includeSecretKey = includeSecretKey,
                            !.json = b.json,
                            !.accountInfo = b.accountInfo,
                            !.restored = restoreAccount(b.json, secretKey)]
  /\ UNCHANGED <<build, draws, clock, keys, sigs, last, wasm, cli, loop>>

\* the caller takes the settled promise's outcome and goes on; the process
\* of a command line run has ended
Settle ==
  /\ ~Idle \/ cli # NoCli
  /\ last' = NoCall
  /\ wasm' = NoWasm
  /\ cli' = NoCli
  /\ UNCHANGED <<loop, sdk, build, draws, clock, keys, sigs>>

Next ==
  \/ Keypair
  \/ Sign
  \/ Verify
  \/ VerifyConstantTime
  \/ ConvertToConstantTime
  \/ GetSaltVersion
  \/ CallSignWrapper
  \/ VerifyTampered
  \/ Settle

Spec == Init /\ [][Next]_vars

\* runs of the command line tool on the keys and signatures of the package
NextCli ==
  \/ Keypair
  \/ Sign
  \/ CliVerify
  \/ HexRoundTrip
  \/ Settle

SpecCli == Init /\ [][NextCli]_vars

\* calls issued concurrently on one instance
NextLoop ==
  \/ InitSettles
  \/ SdkInitSettles
  \/ Start
  \/ Step

SpecLoop == Init /\ [][NextLoop]_vars

\* account operations of the SDK object
NextSdk ==
  \/ StartAccount
  \/ Compile
  \/ AfterLoop
  \/ BackupAndRestore

SpecSdk == Init /\ [][NextSdk]_vars

(* ------------------------------ properties ---------------------------- *)
\* the public key that keypair() returned together with sk
PkMatches(pk, sk) ==
  \E k \in DOMAIN keys : keys[k].secretKey = sk /\ keys[k].publicKey = pk

Returns(call, v) == call.out.st = "ok" /\ call.out.val = v

SameOutcome(a, b) == a.st = b.st /\ a.val = b.val

\* the pending call signs again what sigs[i] records
SignsAgain(i) ==
  last.op = "sign" /\ last.msg = sigs[i].msg /\ last.key = sigs[i].sk

\* C1: a later sign of the same message under the same secret key returns
\* the very bytes the earlier one returned, whatever the heap held and
\* whatever was called in between.
C1_SignDeterministic ==
  \A i \in DOMAIN sigs : SignsAgain(i) => Returns(last, sigs[i].sig)

C1_Witness ==
  \E i \in DOMAIN sigs :
    /\ SignsAgain(i)
    /\ last.heap # sigs[i].heap
    /\ Returns(last, sigs[i].sig)

\* the pending call verifies sigs[i] for its own message under the public
\* key of the pair it was signed with
VerifiesOwn(i) ==
  /\ last.op = "verify"
  /\ last.msg = sigs[i].msg
  /\ last.sig = sigs[i].sig
  /\ PkMatches(last.key, sigs[i].sk)

\* C2: verify(m, sign(m, sk), pk) is true for a pair (sk, pk) of keypair(),
\* and the buffer the verifier rebuilds (header with 0x80 cleared, the salt,
\* the wire bytes from offset 2) is the salted signature the engine produced,
\* byte for byte and in length.
C2_VerifyOwnSignature ==
  \A i \in DOMAIN sigs :
    VerifiesOwn(i) =>
      /\ Returns(last, TRUE)
      /\ last.inner = sigs[i].inner
      /\ BLen(last.inner) = BLen(sigs[i].inner)
      /\ DetBuild =>
           /\ At(last.inner, 0) = At(last.sig, 0) - 128
           /\ Slice(last.inner, 1, 40) = sigs[i].salt
           /\ Drop(last.inner, 41) = Drop(last.sig, 2)

C2_Witness ==
  \E i \in DOMAIN sigs :
    /\ VerifiesOwn(i)
    /\ last.msg.t = "string"
    /\ DetBuild
    /\ last.heap # sigs[i].heap
    /\ Returns(last, TRUE)

\* C3: for a well-formed compressed signature s, verifyConstantTime on
\* convertToConstantTime(s) has the outcome verify has on s, for the same
\* message and public key: both accept or both reject.
C3_CrossFormat ==
  \A i \in DOMAIN sigs : \A s \in Reworked(sigs[i].sig) :
    (last.op = "verifyConstantTime" /\ last.sig \in CtOf(s))
      => SameOutcome(last.out, verify(last.heap, FALSE, last.msg, s, last.key))

C3_Witness ==
  \E i \in DOMAIN sigs :
    /\ last.op = "verifyConstantTime"
    /\ last.sig \in CtOf(sigs[i].sig)
    /\ Returns(last, TRUE)

\* the pending call verifies sigs[i] for another message or under a key
\* that is not the one matching its secret key
VerifiesForeign(i) ==
  /\ last.op = "verify"
  /\ last.sig = sigs[i].sig
  /\ \/ MsgBytes(last.msg) # MsgBytes(sigs[i].msg)
     \/ ~PkMatches(last.key, sigs[i].sk)

\* C4 as stated: verify of a signature made for another message, or under
\* a public key not matching the signing key, returns false and does not
\* throw.
C4_SoundNeverThrows ==
  \A i \in DOMAIN sigs : VerifiesForeign(i) => Returns(last, FALSE)

\* C4 as amended: the same, for public keys of 1793 bytes; verify throws
\* "Invalid public key length" for every other length.
C4_SoundOnSizedKeys ==
  \A i \in DOMAIN sigs :
    VerifiesForeign(i) =>
      IF BLen(last.key) = 1793 THEN Returns(last, FALSE)
      ELSE SameOutcome(last.out, Throw("Invalid public key length"))

C4_Witness ==
  \E i \in DOMAIN sigs :
    /\ VerifiesForeign(i)
    /\ BLen(last.key) = 1793
    /\ MsgBytes(last.msg) = MsgBytes(sigs[i].msg)
    /\ Returns(last, FALSE)

\* C5: on a successful sign the wire signature is the engine's salted
\* signature I of length L remapped: byte 0 = I[0] | 0x80, byte 1 = the
\* current salt version, bytes 2.. = I[41..L-1], length L - 39.
C5_HeaderRemap ==
  (DetBuild /\ last.op = "sign" /\ last.out.st = "ok") =>
    /\ At(last.out.val, 0) = Or80(At(last.inner, 0))
    /\ At(last.out.val, 1) = FALCON_DET1024_CURRENT_SALT_VERSION
    /\ Drop(last.out.val, 2) = Drop(last.inner, 41)
    /\ BLen(last.out.val) = BLen(last.inner) - 39

C5_Witness ==
  /\ DetBuild
  /\ last.op = "sign"
  /\ last.out.st = "ok"
  /\ last.heap = 165
  /\ BLen(last.out.val) > 2

\* byte 0 = version, byte 1 = 10, bytes 2..11 = "FALCON_DET", 28 zero bytes
SaltLayout(version) ==
  Cat(Bytes(<<version, 10, 70, 65, 76, 67, 79, 78, 95, 68, 69, 84>>), Rep(0, 28))

RebuildsSalt ==
  DetBuild /\ last.op \in {"verify", "verifyConstantTime"} /\ last.salt # <<>>

\* C6: the signer's salt and the salt either verifier rebuilds have the
\* fixed layout, the verifier's version byte being sig[1]; for a signature
\* made by sign the rebuilt salt is the salt that signature was made with.
C6_SaltRebuilt ==
  /\ (DetBuild /\ last.op = "sign" /\ last.out.st = "ok")
       => last.salt = SaltLayout(FALCON_DET1024_CURRENT_SALT_VERSION)
  /\ RebuildsSalt => last.salt = SaltLayout(At(last.sig, 1))
  /\ \A i \in DOMAIN sigs :
       (RebuildsSalt /\ (last.sig = sigs[i].sig \/ last.sig \in CtOf(sigs[i].sig)))
         => last.salt = sigs[i].salt

C6_Witness ==
  \E i \in DOMAIN sigs :
    /\ RebuildsSalt
    /\ last.op = "verifyConstantTime"
    /\ last.sig \in CtOf(sigs[i].sig)
    /\ last.heap = 165
    /\ last.salt = sigs[i].salt

\* C7: every key pair of keypair() has a public key of 1793 bytes and a
\* secret key of 2305 bytes, and every result of convertToConstantTime has
\* 1538 bytes.
C7_Sizes ==
  /\ \A k \in DOMAIN keys :
       BLen(keys[k].publicKey) = 1793 /\ BLen(keys[k].secretKey) = 2305
  /\ (last.op = "keypair" /\ last.out.st = "ok")
       => /\ BLen(last.out.val.publicKey) = 1793
          /\ BLen(last.out.val.secretKey) = 2305
  /\ (last.op = "convertToConstantTime" /\ last.out.st = "ok")
       => BLen(last.out.val) = 1538

C7_Witness ==
  /\ keys # <<>>
  /\ last.op = "convertToConstantTime"
  /\ last.out.st = "ok"
  /\ BLen(last.sig) # 1538

\* C8 as stated: every keypair() call draws a fresh seed, so no two calls
\* return the same public key.
C8_FreshKeys ==
  \A i, j \in DOMAIN keys : i # j => keys[i].publicKey # keys[j].publicKey

\* C9: getSaltVersion of a signature made by sign is the current salt
\* version, which is byte 1 of that signature.
C9_SaltVersion ==
  \A i \in DOMAIN sigs :
    (last.op = "getSaltVersion" /\ last.sig = sigs[i].sig)
      => /\ Returns(last, FALCON_DET1024_CURRENT_SALT_VERSION)
         /\ At(sigs[i].sig, 1) = FALCON_DET1024_CURRENT_SALT_VERSION

C9_Witness ==
  \E i \in DOMAIN sigs :
    /\ last.op = "getSaltVersion"
    /\ last.sig = sigs[i].sig
    /\ last.heap = 165
    /\ Returns(last, 0)

\* the pending verification is of a signature no sign or conversion made
Forged ==
  /\ last.op \in {"verify", "verifyConstantTime"}
  /\ BLen(last.key) = PK_SIZE
  /\ \A i \in DOMAIN sigs :
       IF last.op = "verify" THEN last.sig # sigs[i].sig
       ELSE last.sig \notin CtOf(sigs[i].sig)

\* C10 as stated: verify and verifyConstantTime resolve to false, and never
\* throw, for every signature of wrong shape or wrong content.
C10_TotalOnSignatures == Forged => Returns(last, FALSE)

(* ----------------- properties of the calls' inner workings ------------ *)
\* the pending call took this step
Took(step) == \E i \in DOMAIN wasm.log : wasm.log[i] = step

\* step a was taken, and every step b came after it
Before(a, b) ==
  \E i \in DOMAIN wasm.log :
    /\ wasm.log[i] = a
    /\ \A j \in DOMAIN wasm.log : wasm.log[j] = b => i < j

\* the pending call is verify, and it reached the compressed verifier
VerifiesCompressed == DetBuild /\ last.op = "verify" /\ wasm.called

\* the wrapper returned bad-signature without an allocation or an engine call
RejectedAtOnce ==
  /\ wasm.r = FALCON_ERR_BADSIG
  /\ \A i \in DOMAIN wasm.log :
       wasm.log[i][1] # "malloc" /\ wasm.log[i] # <<"call", "falcon_verify">>
  /\ ~Took(<<"write", "salt">>)

\* C11 as stated: the compressed verifier goes on to rebuild the salt
\* exactly when the signature has at least 2 bytes and bit 0x80 of byte 0 is
\* set; every other signature is rejected as badly formed before any
\* allocation and before the lattice verifier is called.
C11_ProceedsOnTagBit ==
  VerifiesCompressed =>
    IF BLen(last.sig) >= 2 /\ At(last.sig, 0) >= 128
    THEN Took(<<"write", "salt">>)
    ELSE RejectedAtOnce

\* C11 as amended: it goes on exactly when the signature has at least 2
\* bytes and byte 0 is the compressed header 0xBA; every other signature,
\* tag bit set or not, is rejected with FALCON_ERR_BADSIG before any
\* allocation and before the lattice verifier is called.
C11_ProceedsOnHeader ==
  VerifiesCompressed =>
    IF BLen(last.sig) >= 2 /\ At(last.sig, 0) = 186
    THEN /\ Took(<<"write", "salt">>)
         /\ Before(<<"check", "header">>, <<"write", "salt">>)
         /\ last.salt # <<>>
    ELSE RejectedAtOnce /\ last.salt = <<>>

C11_Witness ==
  /\ VerifiesCompressed
  /\ BLen(last.sig) >= 2
  /\ At(last.sig, 0) >= 128
  /\ At(last.sig, 0) # 186
  /\ RejectedAtOnce

\* C12: sign with a secret key whose length is not 2305, 0 included, throws
\* and returns no signature, before any allocation in the instance and
\* before the signing wrapper is called.
C12_WrongLengthKey ==
  (last.op = "sign" /\ BLen(last.key) # 2305) =>
    /\ SameOutcome(last.out, Throw("Invalid secret key length"))
    /\ ~wasm.called
    /\ wasm.log = <<>>
    /\ wasm.freed = <<>>

C12_Witness ==
  /\ last.op = "sign"
  /\ BLen(last.key) = 2304
  /\ last.out.st = "throw"
  /\ ~wasm.called

\* every buffer the call allocated has been freed by the time it returns
Released ==
  \A i \in DOMAIN wasm.log :
    /\ wasm.log[i][1] = "malloc" =>
         \E j \in DOMAIN wasm.log : j > i /\ wasm.log[j] = <<"free", wasm.log[i][2]>>
    /\ wasm.log[i][1] = "js_malloc" =>
         \E j \in DOMAIN wasm.log : j > i /\ wasm.log[j] = <<"js_free", wasm.log[i][2]>>

\* the caller's signature buffer and length word are as they were
OutputUntouched == wasm.sig = wasm.sig0 /\ wasm.sig_len = wasm.sig_len0

\* the pending call is sign with a key of the right length whose header
\* byte names another degree
SignsWithForeignDegree ==
  /\ DetBuild
  /\ last.op = "sign"
  /\ BLen(last.key) = 2305
  /\ At(last.key, 0) % 16 # 10

\* C13: sign with a secret key of 2305 bytes whose header byte encodes a
\* logDegree other than 10 fails with the format error; the engine is not
\* called, nothing is absorbed into a sponge, nothing is written to the
\* output, and every buffer allocated before the check is freed.
C13_WrongDegree ==
  SignsWithForeignDegree =>
    /\ wasm.r = FALCON_ERR_FORMAT
    /\ SameOutcome(last.out, Throw("Sign failed"))
    /\ ~Took(<<"call", "falcon_sign_dyn_finish">>)
    /\ ~Took(<<"inject", "detrng">>) /\ ~Took(<<"inject", "hd">>)
    /\ OutputUntouched
    /\ Took(<<"malloc", "saltedsig">>)
    /\ Released

C13_Witness ==
  /\ SignsWithForeignDegree
  /\ At(last.key, 0) = 89
  /\ wasm.r = FALCON_ERR_FORMAT
  /\ Took(<<"free", "detrng">>)

\* the signing wrapper is called with a null or empty required argument
NullArgument ==
  /\ last.op = "sign_wrapper"
  /\ \/ wasm.nulls \cap {"sig", "sig_len", "sk"} # {}
     \/ "msg" \in wasm.nulls /\ BLen(MsgBytes(last.msg)) > 0

\* C14 as stated: in the signing wrapper the null-argument check is the
\* first action: nothing is read through an argument pointer and nothing is
\* allocated before it, and whatever other faults are present the call
\* returns -1.
C14_NullCheckFirst ==
  NullArgument =>
    /\ Returns(last, ERR_INVALID_ARGUMENT)
    /\ Head(wasm.log) = <<"check", "args">>
    /\ Len(wasm.log) = 1

\* the pending signing call, through sign or the exported wrapper, failed
SignFails ==
  /\ DetBuild
  /\ last.op \in {"sign", "sign_wrapper"}
  /\ wasm.called
  /\ wasm.trapped \/ wasm.r # 0

\* C15: on every failure of the signing wrapper (null argument, buffer too
\* small, failed allocation, key of another degree, engine error) the
\* caller's signature buffer and length word are as they were before the
\* call, and sign() throws instead of returning signature bytes.
C15_FailsAtomically ==
  SignFails =>
    /\ OutputUntouched
    /\ last.op = "sign" => last.out.st = "throw"
    /\ last.op = "sign_wrapper" => ~Returns(last, 0)

C15_Witness ==
  /\ SignFails
  /\ last.op = "sign"
  /\ Took(<<"call", "falcon_sign_dyn_finish">>)
  /\ wasm.r = FALCON_ERR_FORMAT
  /\ last.out.st = "throw"

Zeroed(bytes) == \A j \in DOMAIN bytes : bytes[j][1] = 0

\* C16 as stated: when a signing call returns, on any path, every scratch
\* buffer it wrote to (the two sponges, the salt, the temporary signing
\* buffer, the salted signature, the copy of the secret key) has been freed
\* and held only zero bytes when it was freed.
C16_ZeroedAndReleased ==
  (DetBuild /\ last.op = "sign" /\ wasm.called) =>
    /\ Released
    /\ \A i \in DOMAIN wasm.freed :
         wasm.freed[i].written => Zeroed(wasm.freed[i].bytes)

\* the phase a step of the signing wrapper opens, "" for a step within one
PhaseOf(step) ==
  CASE step = <<"write", "salt">> -> "BUILD_SALT"
    [] step = <<"init", "detrng">> -> "DERIVE_RNG"
    [] step = <<"init", "hd">> -> "HASH_MESSAGE"
    [] step = <<"sample", "tmpsd">> -> "SAMPLE_VECTOR"
    [] step = <<"encode", "saltedsig">> -> "ENCODE"
    [] step = <<"write", "sig">> -> "TAG_HEADER"
    [] step = <<"free", "saltedsig">> -> "DONE"
    [] OTHER -> ""

OpensPhase(step) == PhaseOf(step) # ""

PhasesOf(steps) == [i \in DOMAIN steps |-> PhaseOf(steps[i])]
Phases == PhasesOf(SelectSeq(wasm.log, OpensPhase))

\* the pending signing call returned, successfully or not
SignReturned ==
  /\ DetBuild
  /\ last.op \in {"sign", "sign_wrapper"}
  /\ wasm.called
  /\ ~wasm.trapped

\* C17 as stated: a successful signing call goes through BUILD_SALT,
\* DERIVE_RNG, HASH_MESSAGE, SAMPLE_VECTOR, ENCODE, TAG_HEADER, DONE in this
\* order, each once.
C17_SaltFirst ==
  (SignReturned /\ wasm.r = 0) =>
    Phases = <<"BUILD_SALT", "DERIVE_RNG", "HASH_MESSAGE", "SAMPLE_VECTOR",
               "ENCODE", "TAG_HEADER", "DONE">>

\* C17 as amended: a successful signing call validates the key's logDegree,
\* then goes through DERIVE_RNG, BUILD_SALT, HASH_MESSAGE, SAMPLE_VECTOR,
\* ENCODE, TAG_HEADER, DONE in this order, each once, the RNG sponge being
\* finalized before the salt is written; a failing call never reaches
\* TAG_HEADER.
C17_RngFirst ==
  SignReturned =>
    IF wasm.r = 0
    THEN /\ Phases = <<"DERIVE_RNG", "BUILD_SALT", "HASH_MESSAGE",
                       "SAMPLE_VECTOR", "ENCODE", "TAG_HEADER", "DONE">>
         /\ Before(<<"check", "logn">>, <<"init", "detrng">>)
         /\ Before(<<"flip", "detrng">>, <<"write", "salt">>)
         /\ Before(<<"call", "falcon_sign_dyn_finish">>, <<"write", "sig">>)
    ELSE \A i \in DOMAIN Phases : Phases[i] # "TAG_HEADER"

C17_Witness ==
  /\ SignReturned
  /\ build = "timeseed"
  /\ last.op = "sign"
  /\ wasm.r = 0
  /\ Len(Phases) = 7

\* the pending signing call handed control to the lattice engine
EngineCalled ==
  /\ DetBuild
  /\ last.op \in {"sign", "sign_wrapper"}
  /\ Took(<<"call", "falcon_sign_dyn_finish">>)

\* C18: when the signer calls the engine, detrng has absorbed exactly
\* [logDegree] || secretKey || message and is finalized, hd has absorbed
\* exactly salt || message and is not finalized, and no sponge is written
\* to after its finalization.
C18_SpongesAtEngineCall ==
  EngineCalled =>
    /\ wasm.detrng.data = Cat(Cat(Rep(10, 1), last.key), MsgBytes(last.msg))
    /\ wasm.detrng.out
    /\ wasm.hd.data = Cat(SaltLayout(0), MsgBytes(last.msg))
    /\ ~wasm.hd.out
    /\ Before(<<"flip", "detrng">>, <<"call", "falcon_sign_dyn_finish">>)
    /\ \A i, j \in DOMAIN wasm.log :
         (wasm.log[i] = <<"flip", "detrng">> /\ wasm.log[j] = <<"inject", "detrng">>)
           => j < i
    /\ ~Took(<<"flip", "hd">>)

C18_Witness ==
  /\ EngineCalled
  /\ last.op = "sign"
  /\ last.msg.t = "string"
  /\ last.heap = 165
  /\ wasm.r = 0
  /\ BLen(wasm.detrng.data) = 1 + 2305 + 3

\* C19: a successful sign returns n bytes with 2 <= n <= 1462 - 39; n is at
\* most the size of the buffer index.js allocated and wrote into the length
\* word, nothing is written past that buffer, and the engine's length is at
\* least the 41 bytes subtracted from it.
C19_LengthBounds ==
  (SignReturned /\ wasm.r = 0) =>
    /\ 2 <= wasm.sig_len /\ wasm.sig_len <= 1462 - 39
    /\ wasm.sig_len <= wasm.room
    /\ wasm.sig_len <= wasm.sig_len0
    /\ BLen(wasm.sig) = wasm.room
    /\ BLen(last.inner) - 41 >= 0
    /\ wasm.sig_len = BLen(last.inner) - 41 + 2
    /\ last.op = "sign" => BLen(last.out.val) = wasm.sig_len

C19_Witness ==
  /\ SignReturned
  /\ last.op = "sign"
  /\ wasm.r = 0
  /\ wasm.room = 1423
  /\ wasm.sig_len > 1000

\* C20 as stated: getSaltVersion returns byte 1 of every signature of at
\* least 2 bytes, and fails on an empty signature and on no other.
C20_SaltVersionAccessor ==
  last.op = "getSaltVersion" =>
    /\ BLen(last.sig) >= 2 => Returns(last, At(last.sig, 1))
    /\ BLen(last.sig) = 0 <=> last.out.st = "throw"

(* ------------------------- tampered signatures ------------------------ *)
\* the pending call verifies, for the message signed and under the signer's
\* public key, the first signature with one bit of its coefficient region
\* changed
VerifiesFlipped(pos, bit) ==
  /\ DetBuild
  /\ last.op = "verify"
  /\ sigs # <<>>
  /\ last.msg = sigs[1].msg
  /\ PkMatches(last.key, sigs[1].sk)
  /\ last.sig = FlipBit(sigs[1].sig, pos, bit)

\* C22: verify of a valid compressed signature with one bit flipped in its
\* coefficient region (offset 2 to the end, first and last byte included)
\* resolves to false; it does not throw.
C22_TamperSensitive ==
  (sigs # <<>> /\ last.op = "verify") =>
    \A pos \in FlipPositions(sigs[1].sig), bit \in 0..7 :
      VerifiesFlipped(pos, bit) =>
        /\ Returns(last, FALSE)
        /\ ~wasm.trapped
        /\ BLen(last.sig) = BLen(sigs[1].sig)

C22_Witness ==
  /\ sigs # <<>>
  /\ VerifiesFlipped(BLen(sigs[1].sig) - 1, 0)
  /\ Returns(last, FALSE)
  /\ wasm.r = FALCON_ERR_BADSIG

\* C23 as stated: the compressed verifier rebuilds sig_len + 39 bytes inside
\* the buffer of the engine's maximum compressed size, and never writes
\* outside it.
C23_RebuildFits ==
  (VerifiesCompressed /\ Took(<<"write", "salted_sig">>)) =>
    /\ BLen(last.sig) + 39 <= FALCON_SIG_COMPRESSED_MAXSIZE
    /\ ~Overflows(BLen(last.sig))
    /\ ~wasm.trapped

(* --------------------------- command line ----------------------------- *)
\* the characters of a string, counted
StrLen(str) ==
  SumRange([j \in DOMAIN str |-> Len(str[j][1]) * str[j][2]], 1, Len(str))

\* the run of the verify command was given the hex of these bytes
CliGiven(g) == cli.cmd = "verify" /\ DetBuild /\ cli.signature = bytesToHex(g)

\* C21: the verify command calls at most one verifier, verify exactly when
\* byte 0 of the signature is 0xBA and verifyConstantTime exactly when it is
\* 0xDA; any other header byte ends in exit code 1 with no verifier called;
\* what sign returned goes to verify and what convertToConstantTime returned
\* goes to verifyConstantTime.
C21_CliDispatch ==
  (cli.cmd = "verify" /\ DetBuild) =>
    /\ Len(cli.invoked) <= 1
    /\ cli.invoked = <<"verify">> <=>
         (cli.back.st = "ok" /\ At(cli.back.val, 0) = 186)
    /\ cli.invoked = <<"verifyConstantTime">> <=>
         (cli.back.st = "ok" /\ At(cli.back.val, 0) = 218)
    /\ cli.invoked # <<>> => last.op = cli.invoked[1]
    /\ (cli.back.st = "ok" /\ At(cli.back.val, 0) \notin {186, 218}) =>
         cli.exit # 0 /\ cli.invoked = <<>> /\ last = NoCall
    /\ \A i \in DOMAIN sigs :
         /\ CliGiven(sigs[i].sig) =>
              cli.invoked = <<"verify">> /\ last.sig = sigs[i].sig
         /\ \A c \in CtOf(sigs[i].sig) :
              CliGiven(c) =>
                cli.invoked = <<"verifyConstantTime">> /\ last.sig = c

C21_Witness ==
  /\ sigs # <<>>
  /\ \E c \in CtOf(sigs[1].sig) : CliGiven(c)
  /\ cli.invoked = <<"verifyConstantTime">>
  /\ Returns(last, TRUE)
  /\ cli.exit = 0

\* C30 as stated: hexToBytes(bytesToHex(b)) is b for every byte array b, and
\* bytesToHex(b) is 2 * b.length lowercase hexadecimal digits.
C30_HexRoundTrip ==
  cli.cmd = "hex" =>
    /\ cli.back.st = "ok"
    /\ cli.back.val = cli.bytes
    /\ StrLen(cli.signature) = 2 * BLen(cli.bytes)
    /\ \A j \in DOMAIN cli.signature :
         \A k \in DOMAIN cli.signature[j][1] :
           \E d \in DOMAIN HexChars : HexChars[d] = cli.signature[j][1][k]

(* ----------------------- calls on the event loop ---------------------- *)
InitError == "Failed to initialize Falcon module"

\* the call has taken a step past its awaits
Resumed(c) ==
  \/ loop.calls[c].st = "resolved"
  \/ loop.calls[c].err \notin {"none", InitError}
  \/ \E b \in DOMAIN loop.blocks : loop.blocks[b].call = c

\* C24: the module factory is invoked once on an instance however many calls
\* are issued, before or after its promise settles; no call touches the
\* module or the sizes before initialization has succeeded; when it fails,
\* every call, whenever issued, rejects with the initialization error and
\* has not touched the module.
C24_InitOnce ==
  /\ loop.factory = 1
  /\ \A c \in DOMAIN loop.calls :
       /\ ~loop.calls[c].early
       /\ Resumed(c) => loop.init = "ready"
       /\ loop.init = "failed" =>
            /\ loop.calls[c].st # "resolved"
            /\ loop.calls[c].st = "rejected" => loop.calls[c].err = InitError
            /\ loop.calls[c].pc <= 2
       /\ (loop.calls[c].op = "createFalconAccount" /\ Resumed(c)) =>
            loop.sdk = "ready"

C24_Witness ==
  /\ loop.init = "failed"
  /\ \E c, d \in DOMAIN loop.calls :
       /\ loop.calls[c].before /\ ~loop.calls[d].before
       /\ loop.calls[c].op # "createFalconAccount"
       /\ loop.calls[d].op = "createFalconAccount"
       /\ \A e \in {c, d} :
            loop.calls[e].st = "rejected" /\ loop.calls[e].err = InitError

\* the call is between its first allocation and its last free
Inside(c) ==
  /\ loop.calls[c].st = "pending"
  /\ \E b \in DOMAIN loop.blocks : loop.blocks[b].call = c

\* C25: a call that has made its first allocation runs on to its last free:
\* no other call issued on the instance is inside its own section or takes a
\* step meanwhile, so the allocations of two calls are never live together
\* while both are pending.
C25_RunToCompletion ==
  \A c, d \in DOMAIN loop.calls :
    (c # d /\ Inside(c)) => ~Inside(d) /\ loop.running = c

C25_Witness ==
  \E c, d \in DOMAIN loop.calls :
    /\ c # d
    /\ Inside(c)
    /\ loop.calls[c].op = "sign"
    /\ loop.calls[d].op = "verify"
    /\ loop.calls[d].st = "pending"
    /\ loop.calls[d].pc = 2

\* C26 as stated: every block a call allocated has been freed exactly once
\* when the call has settled, whether it resolved or rejected, so no
\* allocation is live once every call has settled.
C26_AllFreed ==
  \A b \in DOMAIN loop.blocks :
    /\ loop.blocks[b].frees <= 1
    /\ loop.calls[loop.blocks[b].call].st # "pending" =>
         loop.blocks[b].frees = 1

(* ------------------------------ accounts ------------------------------ *)
\* the loop has selected a counter
Selected == sdk.st \in {"after", "done"} /\ sdk.escrowAddress >= 0

\* C27: the counters are compiled in the order 0, 1, 2, ...; the counter
\* selected is the smallest whose address is off the curve; the address, the
\* program and the counter returned are those of that pass of the loop; and
\* nothing is compiled after the selection.
C27_SmallestOffCurve ==
  /\ sdk.compiles = [i \in DOMAIN sdk.compiles |-> i - 1]
  /\ Selected =>
       /\ sdk.escrowAddress \in sdk.offCurve
       /\ \A k \in sdk.offCurve : sdk.escrowAddress <= k
       /\ sdk.edpCounter = sdk.escrowAddress
       /\ sdk.programBytes = sdk.escrowAddress
       /\ Len(sdk.compiles) = sdk.escrowAddress + 1
       /\ sdk.st = "done" =>
            /\ sdk.out.st = "ok"
            /\ sdk.out.val["address"] = ToString(sdk.escrowAddress)
            /\ sdk.out.val["logicSig.address"] = sdk.out.val["address"]
            /\ sdk.out.val["logicSig.program"] = sdk.out.val["address"]
            /\ sdk.out.val["logicSig.counter"] = sdk.out.val["address"]

C27_Witness ==
  /\ Selected
  /\ sdk.st = "done"
  /\ sdk.offCurve = {2, 5}
  /\ sdk.compiles = <<0, 1, 2>>
  /\ sdk.out.val["logicSig.counter"] = "2"

\* C28 as stated: at most 256 programs are compiled, and when every address
\* is on the curve the operation fails with an error; it never returns a
\* result whose address is null.
C28_BoundedSearch ==
  /\ Len(sdk.compiles) <= 256
  /\ sdk.st = "done" =>
       /\ sdk.escrowAddress < 0 => sdk.out.st = "throw"
       /\ sdk.out.st = "ok" => sdk.out.val["address"] # "null"

\* the members of the JSON text
Members(text) == {text[i][1] : i \in DOMAIN text}

\* C29: the JSON of backupAccount(accountInfo, false) has neither
\* falconKeys.secretKey nor backupAccount.mnemonic; that of
\* backupAccount(accountInfo, true) has the Falcon secret key; either way
\* accountInfo is as it was before the call, and restoreAccount of the JSON
\* gives the same address.
C29_Backup ==
  sdk.json # <<>> =>
    /\ ~sdk.includeSecretKey =>
         /\ "falconKeys.secretKey" \notin Members(sdk.json)
         /\ "backupAccount.mnemonic" \notin Members(sdk.json)
    /\ sdk.includeSecretKey =>
         /\ "falconKeys.secretKey" \in Members(sdk.json)
         /\ Parse(sdk.json)["falconKeys.secretKey"]
              = sdk.out.val["falconKeys.secretKey"]
    /\ sdk.accountInfo = sdk.out.val
    /\ "falconKeys.secretKey" \in DOMAIN sdk.accountInfo
    /\ sdk.edKeys => "backupAccount.mnemonic" \in DOMAIN sdk.accountInfo
    /\ sdk.restored["address"] = sdk.out.val["address"]

C29_Witness ==
  /\ sdk.json # <<>>
  /\ ~sdk.includeSecretKey
  /\ sdk.edKeys
  /\ Selected
  /\ "backupAccount.mnemonic" \in DOMAIN sdk.accountInfo
  /\ "backupAccount.mnemonic" \notin Members(sdk.json)
  /\ "falconKeys.secretKey" \notin DOMAIN Parse(sdk.json)
====
